---- MODULE Spec2Model ----
(***************************************************************************)
(* Kindle digest pipeline: interest scoring, diversity selection, tier     *)
(* ranking, summarization and the tiered digest run.                       *)
(*                                                                         *)
(* The specifications share the variables below:                           *)
(*   SpecSelect  selectDiverseItems applied to bounded score-ordered lists *)
(*   SpecRank    rankArticlesBatch, one step per batch of BATCH_SIZE       *)
(*   Spec        one tiered digest run (main of the cron runner)           *)
(*   SpecCron    the cron job invoked again in the same period             *)
(*   SpecFallbackRanking    applyFallbackRanking on bounded article lists  *)
(*   SpecCanonicalize       canonicalizeUrl on bounded URLs                *)
(*   SpecScoreKeyword       scoreKeyword on bounded strings                *)
(*   SpecSummaries          generateSummariesBatch, requests in flight     *)
(*   SpecSendNow            one request to send a single article           *)
(*   SpecFallbackSummaries  generateFallbackSummaries on bounded inputs    *)
(* A specification leaves the variables of the others at Idle.             *)
(***************************************************************************)
EXTENDS Integers, Sequences, FiniteSets, TLC

VARIABLES
    \* ---- selectDiverseItems (SpecSelect)
    selPc,          \* "idle" | "call" | "done"
    selIn,          \* scoredItems argument
    selMaxItems,    \* maxItems argument
    selMaxPerTopic, \* maxPerTopic argument
    selDiverse,     \* indices held by `selected` after the first loop
    selOut,         \* indices of the returned list (object identity = input position)
    \* ---- rankArticlesBatch (SpecRank)
    rkPc,           \* "idle" | "loop" | "returned" | "thrown"
    rkArticles,     \* articles argument
    rkI,            \* loop variable i (0-based offset of the next batch)
    rkResults,      \* the results Map
    rkResponses,    \* what the completion request of each batch so far produced
    \* ---- one tiered digest run (Spec)
    pc,                 \* position in main
    env,                \* process.env as read by the run
    dbUser,             \* whether db.user.findFirst() finds the admin user
    dbArticles,         \* the Article table
    dbRuns,             \* the DigestRun table
    storedAtStart,      \* the Article table as it was when the run started
    savedArticles,      \* const savedArticles
    existingHashes,     \* const existingHashes
    feedItems,          \* const feedItems
    scoredItems,        \* const scoredItems
    newItems,           \* const newItems
    selectedFeedItems,  \* const selectedFeedItems
    exI,                \* number of selected feed items the extraction loop has handled
    extractedContent,   \* const extractedContent (Map)
    articlesForRanking, \* const articlesForRanking
    rankings,           \* let rankings (Map)
    summaries,          \* let summaries (Map)
    tieredArticles,     \* const tieredArticles
    digestRun,          \* let digestRun: position of the run's record in dbRuns, 0 = undefined
    extractOk,          \* for each selected feed item handled, whether extractArticle returned
    epubs,              \* the EPUB documents generated by the run
    deliveries,         \* the resend.emails.send calls made so far
    thrown,             \* message of the error that left main, "" when none
    invocations,        \* number of times the cron process was started
    \* ---- a pure function applied to an argument (SpecFallbackRanking, ...)
    fnPc,           \* "idle" | "call" | "done"
    fnArg,          \* the argument
    fnResult,       \* the returned value
    \* ---- generateSummariesBatch with its requests in flight (SpecSummaries)
    smPc,           \* "idle" | "loop" | "await" | "returned"
    smArticles,     \* articles argument
    smI,            \* loop variable i
    smPromises,     \* state of the promise of each article: "none" | "pending" |
                    \* "fulfilled" | "rejected"
    smOutcomes,     \* what the completion request of each started article produced
    smResults,      \* the results Map
    \* ---- a single-article send request (SpecSendNow)
    snPc,           \* "idle" | "request" | "found" | "epub" | "delivered" | "responded"
    snRoute,        \* "api" (send-to-kindle-now) | "ui" (send-to-kindle)
    snArticle,      \* the row findFirst returns, <<>> when there is none
    snSentAt,       \* sentToKindleAt of the article row in the database, 0 = null
    snNow,          \* const now
    snCalls,        \* the resend.emails.send calls made so far
    snThrown,       \* message of the error the catch block received, "" when none
    snResponse      \* the reply, <<>> while there is none

selVars == <<selPc, selIn, selMaxItems, selMaxPerTopic, selDiverse, selOut>>

rkVars == <<rkPc, rkArticles, rkI, rkResults, rkResponses>>

runVars ==
    <<pc, env, dbUser, dbArticles, dbRuns, storedAtStart, savedArticles, existingHashes,
      feedItems, scoredItems, newItems, selectedFeedItems, exI, extractedContent,
      articlesForRanking, rankings, summaries, tieredArticles, digestRun, extractOk,
      epubs, deliveries, thrown, invocations>>

fnVars == <<fnPc, fnArg, fnResult>>

smVars == <<smPc, smArticles, smI, smPromises, smOutcomes, smResults>>

snVars == <<snPc, snRoute, snArticle, snSentAt, snNow, snCalls, snThrown, snResponse>>

vars == <<selVars, rkVars, runVars, fnVars, smVars, snVars>>

\* ------------------------------------------------------------------ idle parts

\* The part of the state a specification does not use.
SelIdle ==
    /\ selPc = "idle" /\ selIn = <<>> /\ selMaxItems = 0 /\ selMaxPerTopic = 0
    /\ selDiverse = <<>> /\ selOut = <<>>

RkIdle ==
    /\ rkPc = "idle" /\ rkArticles = <<>> /\ rkI = 0 /\ rkResults = <<>>
    /\ rkResponses = <<>>

FnIdle ==
    /\ fnPc = "idle"
    /\ fnArg = <<>>
    /\ fnResult = <<>>

SmIdle ==
    /\ smPc = "idle" /\ smArticles = <<>> /\ smI = 0 /\ smPromises = <<>>
    /\ smOutcomes = <<>> /\ smResults = <<>>

SnIdle ==
    /\ snPc = "idle" /\ snRoute = "" /\ snArticle = <<>> /\ snSentAt = 0 /\ snNow = 0
    /\ snCalls = <<>> /\ snThrown = "" /\ snResponse = <<>>

RunIdle ==
    /\ pc = "idle" /\ env = <<>> /\ dbUser = FALSE /\ dbArticles = <<>> /\ dbRuns = <<>>
    /\ storedAtStart = <<>> /\ savedArticles = <<>> /\ existingHashes = {}
    /\ feedItems = <<>> /\ scoredItems = <<>> /\ newItems = <<>>
    /\ selectedFeedItems = <<>> /\ exI = 0 /\ extractedContent = <<>>
    /\ articlesForRanking = <<>> /\ rankings = <<>> /\ summaries = <<>>
    /\ tieredArticles = <<>> /\ digestRun = 0 /\ extractOk = <<>> /\ epubs = <<>>
    /\ deliveries = <<>> /\ thrown = "" /\ invocations = 0

\* ------------------------------------------------------------------ helpers

Min(a, b) == IF a < b THEN a ELSE b

Max(a, b) == IF a > b THEN a ELSE b

Range(s) == {s[i] : i \in DOMAIN s}

\* Array.prototype.includes on a list of object references (here: input positions).
Includes(s, x) == \E i \in DOMAIN s : s[i] = x

\* Array.prototype.sort (stable). before is the comparator as a set of pairs of
\* positions: <<i, j>> when it puts s[i] before s[j]. An element goes after those
\* put before it, and after the earlier elements it is not put before.
StableSort(s, before) ==
    LET pos(i) ==
            1 + Cardinality({j \in DOMAIN s :
                                \/ <<j, i>> \in before
                                \/ (<<i, j>> \notin before /\ j < i)})
    IN  [p \in DOMAIN s |-> s[CHOOSE i \in DOMAIN s : pos(i) = p]]

\* ------------------------------------------------------------------ bounds

\* Longest score-ordered list handed to selectDiverseItems in SpecSelect.
MaxSelItems == 6

\* Largest maxPerTopic argument tried in SpecSelect.
MaxSelPerTopic == 3

\* Default value of the maxPerTopic parameter (and of DIGEST_MAX_PER_TOPIC).
DefaultMaxPerTopic == 3

\* Longest article list handed to rankArticlesBatch in SpecRank (two batches).
MaxRankArticles == 17

\* const BATCH_SIZE = 15
BATCH_SIZE == 15

\* ------------------------------------------------------------------ selectDiverseItems

\* item.matchedTopics[0]; an empty list reads as undefined, which as an object key
\* is the string "undefined".
PrimaryTopic(item) ==
    IF Len(item.matchedTopics) = 0 THEN "undefined" ELSE item.matchedTopics[1]

\* topicCounts[primaryTopic] || 0
TopicCount(topicCounts, t) == IF t \in DOMAIN topicCounts THEN topicCounts[t] ELSE 0

\* A diversity pass that forgets the per-topic cap.
DiversityAdmits_NoCap(currentCount, maxPerTopic) == TRUE

\* A diversity pass whose cap is off by one.
DiversityAdmits_OffByOne(currentCount, maxPerTopic) == currentCount <= maxPerTopic

\* if (currentCount < maxPerTopic)
DiversityAdmits(currentCount, maxPerTopic) == currentCount < maxPerTopic

\* First loop: for (const item of scoredItems) { if (selected.length >= maxItems) break; ... }
RECURSIVE DiversityPass(_, _, _, _, _, _)
DiversityPass(items, maxItems, maxPerTopic, i, selected, topicCounts) ==
    IF i > Len(items) \/ Len(selected) >= maxItems
    THEN selected
    ELSE LET primaryTopic == PrimaryTopic(items[i])
             currentCount == TopicCount(topicCounts, primaryTopic)
         IN  IF DiversityAdmits(currentCount, maxPerTopic)
             THEN DiversityPass(items, maxItems, maxPerTopic, i + 1,
                                Append(selected, i),
                                [t \in DOMAIN topicCounts \cup {primaryTopic} |->
                                    IF t = primaryTopic THEN currentCount + 1
                                    ELSE topicCounts[t]])
             ELSE DiversityPass(items, maxItems, maxPerTopic, i + 1, selected, topicCounts)

\* A fill pass that pushes every item again, selected or not.
FillAdmits_NoIncludesCheck(selected, i) == TRUE

\* if (!selected.includes(item))
FillAdmits(selected, i) == ~Includes(selected, i)

\* A fill pass that walks the list from its end: the lowest-ranked items first.
RECURSIVE FillPass_LowestFirst(_, _, _, _)
FillPass_LowestFirst(items, maxItems, i, selected) ==
    IF i > Len(items) \/ Len(selected) >= maxItems
    THEN selected
    ELSE IF FillAdmits(selected, Len(items) + 1 - i)
         THEN FillPass_LowestFirst(items, maxItems, i + 1,
                                   Append(selected, Len(items) + 1 - i))
         ELSE FillPass_LowestFirst(items, maxItems, i + 1, selected)

\* Second loop, run only if (selected.length < maxItems).
RECURSIVE FillPass(_, _, _, _)
FillPass(items, maxItems, i, selected) ==
    IF i > Len(items) \/ Len(selected) >= maxItems
    THEN selected
    ELSE IF FillAdmits(selected, i)
         THEN FillPass(items, maxItems, i + 1, Append(selected, i))
         ELSE FillPass(items, maxItems, i + 1, selected)

\* The positions (in scoredItems) of the items selectDiverseItems returns, in order.
SelectDiverseIdx(items, maxItems, maxPerTopic) ==
    LET selected == DiversityPass(items, maxItems, maxPerTopic, 1, <<>>, <<>>)
    IN  IF Len(selected) < maxItems THEN FillPass(items, maxItems, 1, selected)
        ELSE selected

\* selectDiverseItems(scoredItems, maxItems, maxPerTopic)
SelectDiverseItems(items, maxItems, maxPerTopic) ==
    LET idx == SelectDiverseIdx(items, maxItems, maxPerTopic)
    IN  [k \in DOMAIN idx |-> items[idx[k]]]

\* ------------------------------------------------------------------ rankArticlesBatch

Tiers == {"critical", "notable", "related"}

\* Map.prototype.set
MapSet(m, k, v) == [x \in DOMAIN m \cup {k} |-> IF x = k THEN v ELSE m[x]]

EmptyMap == <<>>

\* A tier value as it arrives in the parsed JSON: a string made of a word, possibly
\* in upper case and possibly padded with blanks, or a value that is no string.
RawTier(word, upper, padded) ==
    [isString |-> TRUE, word |-> word, upper |-> upper, padded |-> padded]

NotAString == [isString |-> FALSE, word |-> "", upper |-> FALSE, padded |-> FALSE]

\* tier.toLowerCase().trim()
LowerTrim(tier) == [tier EXCEPT !.upper = FALSE, !.padded = FALSE]

\* validateTier: one of the three tiers after normalisation, otherwise 'notable'.
ValidateTier(tier) ==
    LET normalized == LowerTrim(tier)
    IN  IF normalized.word \in Tiers THEN normalized.word ELSE "notable"

FallbackReason == "Fallback: LLM ranking failed"

\* catch block: every article of the batch becomes 'notable'.
RECURSIVE MarkBatchFallback(_, _, _)
MarkBatchFallback(results, batch, k) ==
    IF k > Len(batch) THEN results
    ELSE MarkBatchFallback(
             MapSet(results, batch[k].id, [tier |-> "notable", tierReason |-> FallbackReason]),
             batch, k + 1)

\* for (const ranking of parsed.rankings): validateTier throws on a tier that is no
\* string, which leaves the entries set so far in the map.
RECURSIVE ParseRankings(_, _, _)
ParseRankings(results, entries, k) ==
    IF k > Len(entries) THEN [results |-> results, threw |-> FALSE]
    ELSE IF ~entries[k].tier.isString THEN [results |-> results, threw |-> TRUE]
    ELSE ParseRankings(
             MapSet(results, entries[k].id,
                    [tier |-> ValidateTier(entries[k].tier),
                     tierReason |-> entries[k].tierReason]),
             entries, k + 1)

\* Whether the try block of one batch ends in its catch block.
\*   reject       the completion request throws
\*   empty        the response has no message content
\*   invalidJson  JSON.parse throws
\*   noRankings   the JSON has no iterable "rankings"
\*   json         the JSON has a rankings array
BatchFails(resp) ==
    \/ resp.kind \in {"reject", "invalidJson", "noRankings"}
    \/ resp.kind = "json" /\ \E k \in DOMAIN resp.rankings : ~resp.rankings[k].tier.isString

\* A batch body whose failure escapes instead of being caught.
RankBatchStep_NoCatch(results, batch, resp) ==
    IF resp.kind \in {"reject", "invalidJson", "noRankings"}
    THEN [results |-> results, threw |-> TRUE]
    ELSE IF resp.kind = "empty" THEN [results |-> results, threw |-> FALSE]
    ELSE ParseRankings(results, resp.rankings, 1)

\* A catch block that gives up on the batch without marking its articles.
RankBatchStep_NoFallback(results, batch, resp) ==
    IF resp.kind \in {"reject", "invalidJson", "noRankings", "empty"}
    THEN [results |-> results, threw |-> FALSE]
    ELSE [results |-> ParseRankings(results, resp.rankings, 1).results, threw |-> FALSE]

\* The body of the batch loop: try { request; parse; set } catch { mark the batch }.
\* threw tells whether an error leaves the function: the catch block absorbs all.
RankBatchStep(results, batch, resp) ==
    IF resp.kind \in {"reject", "invalidJson", "noRankings"}
    THEN [results |-> MarkBatchFallback(results, batch, 1), threw |-> FALSE]
    ELSE IF resp.kind = "empty" THEN [results |-> results, threw |-> FALSE]
    ELSE LET p == ParseRankings(results, resp.rankings, 1)
         IN  IF p.threw
             THEN [results |-> MarkBatchFallback(p.results, batch, 1), threw |-> FALSE]
             ELSE [results |-> p.results, threw |-> FALSE]

\* articles.slice(i, i + BATCH_SIZE), i 0-based
BatchAt(articles, i) == SubSeq(articles, i + 1, Min(i + BATCH_SIZE, Len(articles)))

\* ---- what a completion request can produce for a batch

\* Tier strings a response uses: the three tiers, a tier in upper case with blanks
\* around it, and a word that is no tier.
ResponseTiers ==
    {RawTier("critical", FALSE, FALSE), RawTier("notable", FALSE, FALSE),
     RawTier("related", FALSE, FALSE), RawTier("critical", TRUE, TRUE),
     RawTier("urgent", FALSE, FALSE)}

\* The ids a response names, for a batch with ids `ids`: all of them, all but the
\* first, all but the last, none, or all of them and one id of no article (foreign).
ResponseIdLists(ids, foreign) ==
    {ids, <<>>, Append(ids, foreign)}
        \cup (IF Len(ids) > 0 THEN {Tail(ids), SubSeq(ids, 1, Len(ids) - 1)} ELSE {})

\* A rankings array naming idList, the tiers taken in turn from tierSeq; badAt > 0
\* puts a tier that is no string at that position.
RankingsOf(idList, tierSeq, badAt) ==
    [k \in DOMAIN idList |->
        [id |-> idList[k],
         tier |-> IF k = badAt THEN NotAString
                  ELSE tierSeq[((k - 1) % Len(tierSeq)) + 1],
         tierReason |-> "llm"]]

BatchResponses(batch, foreign, tierSeqs) ==
    LET ids == [k \in DOMAIN batch |-> batch[k].id]
    IN  {[kind |-> k, rankings |-> <<>>] :
            k \in {"reject", "empty", "invalidJson", "noRankings"}}
        \cup {[kind |-> "json", rankings |-> RankingsOf(l, t, b)] :
                l \in ResponseIdLists(ids, foreign), t \in tierSeqs, b \in {0, 1, Len(ids)}}

\* Number of iterations of the batch loop over n articles.
NumBatches(n) == (n + BATCH_SIZE - 1) \div BATCH_SIZE

\* rankArticlesBatch as a whole: resps[b] is what the request of batch b produces.
RECURSIVE RankLoop(_, _, _, _)
RankLoop(articles, resps, b, results) ==
    IF b > NumBatches(Len(articles)) THEN results
    ELSE RankLoop(articles, resps, b + 1,
                  RankBatchStep(results, BatchAt(articles, (b - 1) * BATCH_SIZE),
                                resps[b]).results)

RankArticlesBatch(articles, resps) == RankLoop(articles, resps, 1, EmptyMap)

\* ------------------------------------------------------------------ applyFallbackRanking

\* A comparator that looks at the matched topics only.
FallbackBefore_TopicsOnly(a, b) == Len(a.matchedTopics) > Len(b.matchedTopics)

\* sort comparator: manual saves first, then more matched topics first.
FallbackBefore(a, b) ==
    \/ a.isManualSave /\ ~b.isManualSave
    \/ /\ a.isManualSave = b.isManualSave
       /\ Len(a.matchedTopics) > Len(b.matchedTopics)

\* A critical count without the floor of one.
CriticalCount_NoMinimum(n) == (n * 2) \div 10

\* Math.max(1, Math.floor(sorted.length * 0.2))
CriticalCount(n) == Max(1, (n * 2) \div 10)

\* Math.max(2, Math.floor(sorted.length * 0.3))
NotableCount(n) == Max(2, (n * 3) \div 10)

\* sorted.forEach((article, index) => ...), index 0-based
FallbackTier(index, n) ==
    IF index < CriticalCount(n) THEN "critical"
    ELSE IF index < CriticalCount(n) + NotableCount(n) THEN "notable"
    ELSE "related"

RECURSIVE FallbackSet(_, _, _)
FallbackSet(results, sorted, k) ==
    IF k > Len(sorted) THEN results
    ELSE FallbackSet(
             MapSet(results, sorted[k].id,
                    [tier |-> FallbackTier(k - 1, Len(sorted)),
                     tierReason |-> "Keyword-based fallback ranking"]),
             sorted, k + 1)

\* applyFallbackRanking
ApplyFallbackRanking(articles) ==
    IF Len(articles) = 0 THEN EmptyMap
    ELSE FallbackSet(EmptyMap, StableSort(articles,
                                 {p \in (DOMAIN articles) \X (DOMAIN articles) :
                                     FallbackBefore(articles[p[1]], articles[p[2]])}), 1)

\* ------------------------------------------------------------------ strings and URLs

\* A string, seen the way new URL(s) sees it. A string that does not parse as a URL
\* (an article id, a content hash, an empty link) has valid = FALSE and only `raw`.
\* A URL has a scheme, a host written with `www` leading "www." labels and possibly
\* upper-case letters, a pathname `path` followed by `slashes` slashes (the root
\* path is path = "" with one slash), tracking parameters or not, and a rest of query.
Str(raw) ==
    [valid |-> FALSE, raw |-> raw, scheme |-> "", www |-> 0, upper |-> FALSE,
     host |-> "", path |-> "", slashes |-> 0, tracking |-> FALSE, query |-> ""]

Url(scheme, www, upper, host, path, slashes, tracking, query) ==
    [valid |-> TRUE, raw |-> "", scheme |-> scheme, www |-> www, upper |-> upper,
     host |-> host, path |-> path, slashes |-> slashes, tracking |-> tracking,
     query |-> query]

\* canonicalizeUrl: new URL(url) lower-cases the host; then the tracking parameters
\* are deleted, the protocol is set to https, one trailing slash is cut from a
\* pathname longer than "/", one leading "www." is cut; a string that does not
\* parse is returned unchanged.
CanonicalizeUrl(url) ==
    IF ~url.valid THEN url
    ELSE [url EXCEPT
            !.upper = FALSE,
            !.tracking = FALSE,
            !.scheme = "https",
            !.slashes = IF @ >= 1 /\ ~(url.path = "" /\ @ = 1) THEN @ - 1 ELSE @,
            !.www = IF @ >= 1 THEN @ - 1 ELSE @]

\* ------------------------------------------------------------------ interest scoring

\* A word of a text: its letters in lower case, and whether it is written with
\* upper-case letters. A text is a sequence of words (whatever separates them is
\* what normalizeText turns into blanks).
W(w) == [w |-> w, cap |-> FALSE]

Cap(w) == [w |-> w, cap |-> TRUE]

\* normalizeText: toLowerCase
NormalizeText(text) == [i \in DOMAIN text |-> [text[i] EXCEPT !.cap = FALSE]]

\* The keyword (a sequence of words) stands at position i of the text.
MatchAt(keyword, text, i) ==
    /\ i + Len(keyword) - 1 <= Len(text)
    /\ \A j \in DOMAIN keyword : text[i + j - 1] = keyword[j]

\* normalizedText.match(/\bkeyword\b/gi): the matches, left to right, not overlapping.
RECURSIVE CountMatches(_, _, _)
CountMatches(keyword, text, i) ==
    IF i > Len(text) \/ Len(keyword) = 0 THEN 0
    ELSE IF MatchAt(keyword, text, i)
         THEN 1 + CountMatches(keyword, text, i + Len(keyword))
         ELSE CountMatches(keyword, text, i + 1)

\* scoreKeyword
ScoreKeyword(keyword, text) ==
    LET matchCount == CountMatches(NormalizeText(keyword), NormalizeText(text), 1)
    IN  IF matchCount = 0 THEN 0 ELSE Min(10, matchCount * 2)

\* A publish date: null, or a date `age` hours before the run.
NoDate == [null |-> TRUE, age |-> 0]

HoursAgo(h) == [null |-> FALSE, age |-> h]

\* calculateRecencyScore, times 66 (so that the linear decay stays an integer):
\* 100 up to 6 hours, 0 from 72 hours or without a date, 100 - (age - 6) * (100 / 66)
\* in between.
RecencyScore66(pubDate) ==
    IF pubDate.null THEN 0
    ELSE IF pubDate.age <= 6 THEN 6600
    ELSE IF pubDate.age >= 72 THEN 0
    ELSE 6600 - (pubDate.age - 6) * 100

RECURSIVE SumSeq(_)
SumSeq(s) == IF Len(s) = 0 THEN 0 ELSE Head(s) + SumSeq(Tail(s))

\* topicScore of one topic: the sum of its keywords' scores.
TopicScore(topic, text) ==
    SumSeq([k \in DOMAIN topic.keywords |-> ScoreKeyword(topic.keywords[k], text)])

\* The subsequence of s at the positions that satisfy keep.
RECURSIVE FilterIdx(_, _, _)
FilterIdx(s, keep, i) ==
    IF i > Len(s) THEN <<>>
    ELSE IF i \in keep THEN <<s[i]>> \o FilterIdx(s, keep, i + 1)
    ELSE FilterIdx(s, keep, i + 1)

\* scoreFeedItem. interests is the list Object.entries(interests) walks. The score
\* is kept times 330: 330 * totalScore + 66 * recencyScore stands for
\* totalScore + recencyScore * 0.2.
ScoreFeedItem(item, interests) ==
    LET textToSearch == item.title \o item.contentSnippet \o item.content
        matched == {t \in DOMAIN interests : TopicScore(interests[t], textToSearch) > 0}
        totalScore ==
            SumSeq([t \in DOMAIN interests |-> TopicScore(interests[t], textToSearch)])
    IN  [title |-> item.title, link |-> item.link, pubDate |-> item.pubDate,
         content |-> item.content, contentSnippet |-> item.contentSnippet,
         feedUrl |-> item.feedUrl,
         score |-> 330 * totalScore + RecencyScore66(item.pubDate),
         matchedTopics |->
             FilterIdx([t \in DOMAIN interests |-> interests[t].name], matched, 1),
         recencyScore66 |-> RecencyScore66(item.pubDate)]

\* relevantItems.sort((a, b) => b.score - a.score)
HigherScore(a, b) == a.score > b.score

\* scoredItems.filter((item) => item.matchedTopics.length > 0)
IsRelevant(item) == Len(item.matchedTopics) > 0

\* A ranking that leaves the relevant items in feed order.
ScoreAndRankFeedItems_Unsorted(items, interests) ==
    LET scored == [i \in DOMAIN items |-> ScoreFeedItem(items[i], interests)]
    IN  FilterIdx(scored, {i \in DOMAIN scored : IsRelevant(scored[i])}, 1)

\* scoreAndRankFeedItems
ScoreAndRankFeedItems(items, interests) ==
    LET scored == [i \in DOMAIN items |-> ScoreFeedItem(items[i], interests)]
        relevantItems == FilterIdx(scored, {i \in DOMAIN scored : IsRelevant(scored[i])}, 1)
    IN  StableSort(relevantItems,
                   {p \in (DOMAIN relevantItems) \X (DOMAIN relevantItems) :
                       HigherScore(relevantItems[p[1]], relevantItems[p[2]])})

\* ------------------------------------------------------------------ feeds

\* fetchMultipleFeeds comparator: newest first, items without a date last.
NewerFirst(a, b) ==
    /\ ~a.pubDate.null
    /\ (b.pubDate.null \/ a.pubDate.age < b.pubDate.age)

RECURSIVE Flatten(_)
Flatten(ss) == IF Len(ss) = 0 THEN <<>> ELSE Head(ss) \o Flatten(Tail(ss))

\* fetchMultipleFeeds: fetchFeed returns [] for a feed that fails; the items of the
\* feeds are appended in the order of feedUrls and sorted by date.
FetchMultipleFeeds(feedUrls, contents, up) ==
    LET items == Flatten([k \in DOMAIN feedUrls |->
                            IF feedUrls[k] \in up THEN contents[feedUrls[k]] ELSE <<>>])
    IN  StableSort(items,
                   {p \in (DOMAIN items) \X (DOMAIN items) : NewerFirst(items[p[1]], items[p[2]])})

\* ------------------------------------------------------------------ SpecRank

\* The id no article of SpecRank has.
RkForeignId == 0

RkArticle(i) == [id |-> i, isManualSave |-> FALSE, matchedTopics |-> <<>>]

RkInit ==
    /\ rkPc = "loop"
    /\ \E n \in 0..MaxRankArticles : rkArticles = [i \in 1..n |-> RkArticle(i)]
    /\ rkI = 0
    /\ rkResults = EmptyMap
    /\ rkResponses = <<>>
    /\ SelIdle
    /\ RunIdle
    /\ FnIdle
    /\ SmIdle
    /\ SnIdle

\* One iteration of for (let i = 0; i < articles.length; i += BATCH_SIZE).
RankBatch ==
    /\ rkPc = "loop"
    /\ rkI < Len(rkArticles)
    /\ \E resp \in BatchResponses(BatchAt(rkArticles, rkI), RkForeignId,
                                     {<<t>> : t \in ResponseTiers}) :
          LET step == RankBatchStep(rkResults, BatchAt(rkArticles, rkI), resp)
          IN  /\ rkResults' = step.results
              /\ rkResponses' = Append(rkResponses, resp)
              /\ rkPc' = IF step.threw THEN "thrown" ELSE "loop"
    /\ rkI' = rkI + BATCH_SIZE
    /\ UNCHANGED rkArticles

\* return results
RankReturn ==
    /\ rkPc = "loop"
    /\ rkI >= Len(rkArticles)
    /\ rkPc' = "returned"
    /\ UNCHANGED <<rkArticles, rkI, rkResults, rkResponses>>

RkNext ==
    \/ RankBatch /\ UNCHANGED <<selVars, runVars, fnVars, smVars, snVars>>
    \/ RankReturn /\ UNCHANGED <<selVars, runVars, fnVars, smVars, snVars>>

SpecRank == RkInit /\ [][RkNext]_vars

\* ------------------------------------------------------------------ SpecSelect

\* matchedTopics lists of the generated items: the first entry is the primary topic.
SelTopicLists == {<<"tech">>, <<"ai">>, <<"ai", "tech">>}

\* The i-th item of a generated list: lists are score-descending, 100, 90, 80, ...
SelItem(i, topics) == [link |-> i, score |-> 110 - 10 * i, matchedTopics |-> topics]

SelInputs ==
    UNION {{[i \in 1..n |-> SelItem(i, f[i])] : f \in [1..n -> SelTopicLists]} :
           n \in 0..MaxSelItems}

SelInit ==
    /\ selPc = "call"
    /\ selIn \in SelInputs
    /\ selMaxItems \in 0..MaxSelItems
    /\ selMaxPerTopic \in 0..MaxSelPerTopic
    /\ selDiverse = <<>>
    /\ selOut = <<>>
    /\ RkIdle
    /\ RunIdle
    /\ FnIdle
    /\ SmIdle
    /\ SnIdle

\* One call of selectDiverseItems.
SelectCall ==
    /\ selPc = "call"
    /\ selDiverse' = DiversityPass(selIn, selMaxItems, selMaxPerTopic, 1, <<>>, <<>>)
    /\ selOut' = SelectDiverseIdx(selIn, selMaxItems, selMaxPerTopic)
    /\ selPc' = "done"
    /\ UNCHANGED <<selIn, selMaxItems, selMaxPerTopic>>

SelNext == SelectCall /\ UNCHANGED <<rkVars, runVars, fnVars, smVars, snVars>>

SpecSelect == SelInit /\ [][SelNext]_vars

\* ------------------------------------------------------------------ the digest run: its world

\* The value of DIGEST_INTERESTS_JSON: undefined, the empty string, a text that is
\* no JSON, or a JSON text with its value. A JSON value is an object with its
\* entries in key order, or a value of another type; the value of an entry is an
\* object with `keywords` and `feeds`, each an array of strings, missing or of
\* another type, or it is no object.
EnvText(kind, value) == [kind |-> kind, value |-> value]

JsonObject(entries) == [type |-> "object", entries |-> entries]

JsonOther(type) == [type |-> type, entries |-> <<>>]

JsonField(type, items) == [type |-> type, items |-> items]

TopicJson(keywords, feeds) == [type |-> "object", keywords |-> keywords, feeds |-> feeds]

\* JSON.parse(jsonString): throws a SyntaxError for a text that is no JSON.
JsonParse(jsonString) ==
    IF jsonString.kind = "json"
    THEN [threw |-> FALSE, value |-> jsonString.value]
    ELSE [threw |-> TRUE, value |-> JsonOther("undefined")]

\* InterestTopicSchema: keywords is an array of strings, feeds is one or is missing.
TopicFits(topic) ==
    /\ topic.type = "object"
    /\ topic.keywords.type = "strings"
    /\ topic.feeds.type \in {"strings", "missing"}

\* DigestInterestsSchema.parse(parsed): the topics of a record of topics, in key
\* order; it throws a ZodError for anything else.
SchemaParse(parsed) ==
    IF /\ parsed.type = "object"
       /\ \A k \in DOMAIN parsed.entries : TopicFits(parsed.entries[k].value)
    THEN [threw |-> FALSE,
          value |-> [k \in DOMAIN parsed.entries |->
                       [name |-> parsed.entries[k].name,
                        keywords |-> parsed.entries[k].value.keywords.items,
                        feeds |-> parsed.entries[k].value.feeds.items]]]
    ELSE [threw |-> TRUE, value |-> <<>>]

\* parseDigestInterests without its try block.
ParseDigestInterests_NoCatch(jsonString) ==
    IF jsonString.kind \in {"undefined", "empty"}
    THEN [threw |-> FALSE, value |-> <<>>]
    ELSE IF JsonParse(jsonString).threw
    THEN [threw |-> TRUE, value |-> <<>>]
    ELSE SchemaParse(JsonParse(jsonString).value)

\* parseDigestInterests: {} for a falsy string; the parsed topics, or {} from the
\* catch block when JSON.parse or the schema throws. `threw` tells whether an
\* error leaves the function.
ParseDigestInterests(jsonString) ==
    IF jsonString.kind \in {"undefined", "empty"}
    THEN [threw |-> FALSE, value |-> <<>>]
    ELSE IF JsonParse(jsonString).threw
    THEN [threw |-> FALSE, value |-> <<>>]
    ELSE IF SchemaParse(JsonParse(jsonString).value).threw
    THEN [threw |-> FALSE, value |-> <<>>]
    ELSE SchemaParse(JsonParse(jsonString).value)

\* [...new Set(s)]: first occurrences, in order.
Dedup(s) == FilterIdx(s, {i \in DOMAIN s : \A j \in 1..(i - 1) : s[j] # s[i]}, 1)

\* getAllFeedsFromInterests
GetAllFeedsFromInterests(interests) ==
    Dedup(Flatten([t \in DOMAIN interests |-> interests[t].feeds]))

\* Object.keys(interests)
InterestTopics(interests) == [t \in DOMAIN interests |-> interests[t].name]

\* const allFeeds = [...new Set([...baseFeeds, ...interestFeeds])]
AllFeeds(baseFeeds, interests) == Dedup(baseFeeds \o GetAllFeedsFromInterests(interests))

\* ---- the interests and feeds of the runs

InterestsValue ==
    <<[name |-> "tech", keywords |-> <<(<<W("apple")>>), (<<W("iphone")>>)>>,
       feeds |-> <<>>],
      [name |-> "ai", keywords |-> <<(<<W("gpt")>>), (<<W("llm")>>)>>,
       feeds |-> <<"feedAi", "feedNews">>]>>

\* The JSON text of InterestsValue: a topic without feeds has no `feeds` key.
InterestsText ==
    EnvText("json",
            JsonObject([k \in DOMAIN InterestsValue |->
                          [name |-> InterestsValue[k].name,
                           value |-> TopicJson(
                                JsonField("strings", InterestsValue[k].keywords),
                                IF InterestsValue[k].feeds = <<>>
                                THEN JsonField("missing", <<>>)
                                ELSE JsonField("strings", InterestsValue[k].feeds))]]))

\* Values of the variable that give no interests: unset, empty, 'not valid json',
\* '[]', '{"tech":"not an object"}', and a topic whose keywords is a number.
MalformedInterests ==
    {EnvText("undefined", JsonOther("undefined")),
     EnvText("empty", JsonOther("undefined")),
     EnvText("notJson", JsonOther("undefined")),
     EnvText("json", JsonOther("array")),
     EnvText("json", JsonObject(<<[name |-> "tech", value |-> JsonOther("string")]>>)),
     EnvText("json",
             JsonObject(<<InterestsText.value.entries[1],
                          [name |-> "ai",
                           value |-> TopicJson(JsonField("number", <<>>),
                                               JsonField("missing", <<>>))]>>))}

InterestsJson == {InterestsText} \cup MalformedInterests

\* http://WWW.Example.com/a/?utm_source=rss
LinkA == Url("http", 1, TRUE, "example.com", "/a", 1, TRUE, "")

LinkB == Url("https", 0, FALSE, "example.com", "/b", 0, FALSE, "")

LinkC == Url("https", 0, FALSE, "news.com", "/c", 0, FALSE, "id=1")

LinkD == Url("https", 0, FALSE, "news.com", "/d", 0, FALSE, "")

\* item.link || ''
NoLink == Str("")

FeedItem(title, link, pubDate, contentSnippet, feedUrl) ==
    [title |-> title, link |-> link, pubDate |-> pubDate, content |-> <<>>,
     contentSnippet |-> contentSnippet, feedUrl |-> feedUrl]

\* What each feed serves. feedNews and feedAi both carry an item with LinkC.
FeedContents ==
    [f \in {"feedBase", "feedNews", "feedAi"} |->
        CASE f = "feedBase" ->
                <<FeedItem(<<Cap("apple"), W("iphone")>>, LinkA, HoursAgo(2),
                           <<W("review")>>, f),
                  FeedItem(<<W("weather")>>, LinkB, HoursAgo(1), <<W("rain")>>, f)>>
          [] f = "feedNews" ->
                <<FeedItem(<<W("apple")>>, LinkC, HoursAgo(30), <<W("orchard")>>, f),
                  FeedItem(<<W("apple"), W("apple")>>, LinkD, HoursAgo(2), <<>>, f)>>
          [] f = "feedAi" ->
                <<FeedItem(<<W("gpt"), W("apple"), W("iphone"), W("llm")>>, LinkC,
                           HoursAgo(40), <<W("news")>>, f),
                  FeedItem(<<W("llm")>>, NoLink, NoDate, <<W("notes")>>, f)>>]

\* ---- the Article table

\* A row of the Article table. excerpt and contentText are lengths in characters.
Article(id, status, sent, favorited, createdAt, canonicalUrl, contentHash, excerpt) ==
    [id |-> Str(id), status |-> status, sent |-> sent, favorited |-> favorited,
     createdAt |-> createdAt, url |-> canonicalUrl, canonicalUrl |-> canonicalUrl,
     contentHash |-> contentHash, excerpt |-> excerpt, contentText |-> 900]

\* The content hash of the page behind a link.
HashOf(link) == [link EXCEPT !.valid = FALSE, !.raw = "sha256"]

StoredCatalogue ==
    {Article("a1", "INBOX", FALSE, FALSE, 1,
             Url("https", 0, FALSE, "saved.com", "/x", 0, FALSE, ""),
             HashOf(Url("https", 0, FALSE, "saved.com", "/x", 0, FALSE, "")), 0),
     Article("a2", "INBOX", FALSE, TRUE, 2, CanonicalizeUrl(LinkA),
             HashOf(CanonicalizeUrl(LinkA)), 450),
     Article("a3", "ARCHIVED", TRUE, FALSE, 3, LinkD, HashOf(LinkD), 120)}

\* orderBy: [{ favorited: 'desc' }, { createdAt: 'desc' }]
SavedBefore(a, b) ==
    \/ a.favorited /\ ~b.favorited
    \/ a.favorited = b.favorited /\ a.createdAt > b.createdAt

\* The rows matching the where clause, in the order of the orderBy clause.
OrderedInbox(table) ==
    LET rows == {a \in table : a.status = "INBOX" /\ ~a.sent}
    IN  [p \in 1..Cardinality(rows) |->
            CHOOSE r \in rows : Cardinality({q \in rows : SavedBefore(q, r)}) = p - 1]

\* db.article.findMany({ where: { status: 'INBOX', sentToKindleAt: null },
\*                       orderBy: ..., take: DIGEST_MAX_SAVED })
FindSavedArticles(table, take) ==
    LET rows == OrderedInbox(table)
    IN  SubSeq(rows, 1, Min(take, Len(rows)))

\* new Set(rows.flatMap((a) => [a.contentHash, a.canonicalUrl]))
ExistingHashes(table) ==
    {a.contentHash : a \in table} \cup {a.canonicalUrl : a \in table}

\* A dedup filter that looks the raw link up.
IsNewItem_RawLink(item, hashes) == item.link \notin hashes

\* scoredItems.filter((item) => !existingHashes.has(canonicalizeUrl(item.link)))
IsNewItem(item, hashes) == CanonicalizeUrl(item.link) \notin hashes

NewItems(scored, hashes) ==
    FilterIdx(scored, {i \in DOMAIN scored : IsNewItem(scored[i], hashes)}, 1)

\* ------------------------------------------------------------------ the digest run: its steps

\* Length in characters of a text whose words are joined by single blanks.
CharLen(text) ==
    IF Len(text) = 0 THEN 0
    ELSE SumSeq([i \in DOMAIN text |-> Len(text[i].w)]) + Len(text) - 1

\* A string the run builds, kept as where it comes from and how long it is.
Text(src, len) == [src |-> src, len |-> len]

Undefined == Text("undefined", 0)

\* JavaScript truthiness of a string or undefined.
Truthy(t) == t.len > 0

\* article.excerpt.slice(0, n) + '...'
ExcerptDots(excerpt, n) == Text("excerpt", Min(excerpt, n) + 3)

\* article.content || '' of the page behind a link: Readability gives the page of
\* LinkC no content, every other page has some.
PageHtml(link) == IF link = LinkC THEN "" ELSE "html"

\* What extractArticle returns for a page that is fetched and parsed.
ExtractedArticle(link) ==
    [contentHtml |-> PageHtml(link), contentText |-> 3000,
     canonicalUrl |-> CanonicalizeUrl(link), contentHash |-> HashOf(CanonicalizeUrl(link))]

\* extractedContent after the loop over savedArticles.
RECURSIVE SavedContent(_, _, _)
SavedContent(content, saved, k) ==
    IF k > Len(saved) THEN content
    ELSE SavedContent(
             MapSet(content, saved[k].id, [html |-> "html", text |-> saved[k].contentText]),
             saved, k + 1)

\* The ArticleForRanking of a saved article.
SavedForRanking(a) ==
    [id |-> a.id, title |-> Text("title", 5),
     excerpt |-> IF a.excerpt > 0 THEN a.excerpt ELSE Min(a.contentText, 500),
     url |-> a.url, isManualSave |-> TRUE, matchedTopics |-> <<>>]

\* The ArticleForRanking of a selected feed item.
FeedForRanking(item) ==
    [id |-> item.link, title |-> Text("title", CharLen(item.title)),
     excerpt |-> IF CharLen(item.contentSnippet) > 0 THEN CharLen(item.contentSnippet)
                 ELSE Min(CharLen(item.content), 500),
     url |-> item.link, isManualSave |-> FALSE, matchedTopics |-> item.matchedTopics]

\* A list for ranking made of the feed items alone.
ArticlesForRanking_FeedOnly(saved, selected, content) ==
    LET kept == FilterIdx(selected,
                          {i \in DOMAIN selected : selected[i].link \in DOMAIN content}, 1)
    IN  [k \in DOMAIN kept |-> FeedForRanking(kept[k])]

\* const articlesForRanking = [...savedArticles.map(...),
\*     ...selectedFeedItems.filter((item) => extractedContent.has(item.link)).map(...)]
ArticlesForRanking(saved, selected, content) ==
    [k \in DOMAIN saved |-> SavedForRanking(saved[k])]
        \o LET kept == FilterIdx(selected,
                                 {i \in DOMAIN selected : selected[i].link \in DOMAIN content},
                                 1)
           IN  [k \in DOMAIN kept |-> FeedForRanking(kept[k])]

\* A join that leaves an article without a ranking without a tier.
TierOf_NoDefault(ranks, id) == IF id \in DOMAIN ranks THEN ranks[id].tier ELSE "none"

\* rankings.get(article.id)?.tier || 'related'
TierOf(ranks, id) == IF id \in DOMAIN ranks THEN ranks[id].tier ELSE "related"

\* const articlesWithTiers / summaryInputs
ArticlesWithTiers(articles, ranks) ==
    [k \in DOMAIN articles |->
        [article |-> articles[k], tier |-> TierOf(ranks, articles[k].id)]]

CONCURRENCY == 5

\* What the completion request of one generateSummary call produces:
\*   reject  the promise of generateSummary rejects (an error outside its try block)
\*   fail    the request throws, the response has no content, or JSON.parse throws
\*   json    a JSON object, with a "summary" and a "oneLiner" or without
SummaryOutcome(kind, summary, oneLiner) ==
    [kind |-> kind, summary |-> summary, oneLiner |-> oneLiner]

\* The value a fulfilled generateSummary returns.
GenerateSummary(article, tier, outcome) ==
    IF outcome.kind = "json"
    THEN [summary |-> IF Truthy(outcome.summary) THEN outcome.summary
                      ELSE ExcerptDots(article.excerpt, 200),
          oneLiner |-> outcome.oneLiner]
    ELSE [summary |-> ExcerptDots(article.excerpt, IF tier = "critical" THEN 400 ELSE 150),
          oneLiner |-> IF tier = "related" THEN article.title ELSE Undefined]

\* for (const result of batchResults) if (result.status === 'fulfilled') results.set(...)
RECURSIVE SettleBatch(_, _, _, _, _)
SettleBatch(results, inputs, outcomes, k, last) ==
    IF k > last THEN results
    ELSE SettleBatch(
             IF outcomes[k].kind = "reject" THEN results
             ELSE MapSet(results, inputs[k].article.id,
                         GenerateSummary(inputs[k].article, inputs[k].tier, outcomes[k])),
             inputs, outcomes, k + 1, last)

\* for (let i = 0; i < articles.length; i += CONCURRENCY)
RECURSIVE SummariesLoop(_, _, _, _)
SummariesLoop(inputs, outcomes, i, results) ==
    IF i >= Len(inputs) THEN results
    ELSE SummariesLoop(inputs, outcomes, i + CONCURRENCY,
                       SettleBatch(results, inputs, outcomes, i + 1,
                                   Min(i + CONCURRENCY, Len(inputs))))

\* generateSummariesBatch
GenerateSummariesBatch(inputs, outcomes) == SummariesLoop(inputs, outcomes, 0, EmptyMap)

\* A loop that cuts every excerpt at 150 characters, whatever the tier.
RECURSIVE FallbackSummariesLoop_OneLimit(_, _, _)
FallbackSummariesLoop_OneLimit(inputs, k, results) ==
    IF k > Len(inputs) THEN results
    ELSE FallbackSummariesLoop_OneLimit(
             inputs, k + 1,
             MapSet(results, inputs[k].article.id,
                    [summary |-> ExcerptDots(inputs[k].article.excerpt, 150),
                     oneLiner |-> inputs[k].article.title]))

RECURSIVE FallbackSummariesLoop(_, _, _)
FallbackSummariesLoop(inputs, k, results) ==
    IF k > Len(inputs) THEN results
    ELSE FallbackSummariesLoop(
             inputs, k + 1,
             MapSet(results, inputs[k].article.id,
                    [summary |-> ExcerptDots(inputs[k].article.excerpt,
                                             IF inputs[k].tier = "critical" THEN 400 ELSE 150),
                     oneLiner |-> inputs[k].article.title]))

\* generateFallbackSummaries
GenerateFallbackSummaries(inputs) == FallbackSummariesLoop(inputs, 1, EmptyMap)

\* One element of tieredArticles:
\*   summary: summaryData?.summary || article.excerpt.slice(0, 200) + '...'
\*   oneLiner: summaryData?.oneLiner || article.title
TieredArticle(input, content, sums) ==
    LET id == input.article.id
        summaryData == IF id \in DOMAIN sums THEN sums[id]
                       ELSE [summary |-> Undefined, oneLiner |-> Undefined]
    IN  [id |-> id, url |-> input.article.url, tier |-> input.tier,
         summary |-> IF Truthy(summaryData.summary) THEN summaryData.summary
                     ELSE ExcerptDots(input.article.excerpt, 200),
         oneLiner |-> IF Truthy(summaryData.oneLiner) THEN summaryData.oneLiner
                      ELSE input.article.title,
         contentHtml |-> IF id \in DOMAIN content THEN content[id].html ELSE ""]

\* ------------------------------------------------------------------ Spec: one tiered digest run

\* The limits a run is configured with: the ones that let everything through the
\* selection, and tight ones.
RunLimits ==
    {[DIGEST_MAX_ARTICLES |-> 5, DIGEST_MAX_SAVED |-> 2, DIGEST_MAX_RSS |-> 3,
      DIGEST_MAX_PER_TOPIC |-> 3],
     [DIGEST_MAX_ARTICLES |-> 2, DIGEST_MAX_SAVED |-> 1, DIGEST_MAX_RSS |-> 2,
      DIGEST_MAX_PER_TOPIC |-> 1]}

RunEnvs ==
    {[llmEnabled |-> l, DIGEST_SAVE_FEED_ITEMS |-> s, limits |-> m,
      DIGEST_INTERESTS_JSON |-> j, RSS_FEEDS |-> <<"feedBase", "feedNews">>] :
        l \in BOOLEAN, s \in BOOLEAN, m \in RunLimits, j \in InterestsJson}

\* ids db.article.create gives to new rows
NewIds == {Str("f1"), Str("f2"), Str("f3")}

\* What the ranking request can produce for the articles of a run (they fit in one
\* batch): a failure, no content, or rankings for all ids, for all but the first,
\* or for all and a foreign one, with the tiers taken in turn.
RunRankResponses(articles) ==
    IF Len(articles) = 0 THEN {<<>>}
    ELSE {<<r>> : r \in
            {x \in BatchResponses(articles, Str("unknown"),
                                  {<<RawTier("critical", FALSE, FALSE),
                                     RawTier("related", TRUE, TRUE),
                                     RawTier("urgent", FALSE, FALSE)>>}) :
                /\ x.kind \in {"reject", "empty", "json"}
                /\ x.kind = "json" =>
                      \/ ~BatchFails(x) /\ Len(x.rankings) >= Len(articles) - 1
                      \/ BatchFails(x) /\ Len(x.rankings) = Len(articles)}}

\* What the summary requests of a run can produce: the same outcome for every
\* article, or that outcome for the first article and a full JSON for the others.
RunSummaryOutcomes(n) ==
    LET full == SummaryOutcome("json", Text("llm", 80), Text("llm", 20))
        kinds == {full,
                  SummaryOutcome("json", Undefined, Text("llm", 20)),
                  SummaryOutcome("json", Text("llm", 80), Undefined),
                  SummaryOutcome("fail", Undefined, Undefined),
                  SummaryOutcome("reject", Undefined, Undefined)}
    IN  {[k \in 1..n |-> o] : o \in kinds}
            \cup {[k \in 1..n |-> IF k = 1 THEN o ELSE full] : o \in kinds}

Init ==
    /\ pc = "start"
    /\ env \in RunEnvs
    /\ dbUser \in BOOLEAN
    /\ dbArticles \in (IF dbUser THEN SUBSET StoredCatalogue ELSE {{}})
    /\ dbRuns = <<>>
    /\ storedAtStart = {}
    /\ savedArticles = <<>>
    /\ existingHashes = {}
    /\ feedItems = <<>>
    /\ scoredItems = <<>>
    /\ newItems = <<>>
    /\ selectedFeedItems = <<>>
    /\ exI = 0
    /\ extractedContent = <<>>
    /\ articlesForRanking = <<>>
    /\ rankings = <<>>
    /\ summaries = <<>>
    /\ tieredArticles = <<>>
    /\ digestRun = 0
    /\ extractOk = <<>>
    /\ epubs = <<>>
    /\ deliveries = <<>>
    /\ thrown = ""
    /\ invocations = 1
    /\ SelIdle
    /\ RkIdle
    /\ FnIdle
    /\ SmIdle
    /\ SnIdle

\* A start that records a FAILED run although there is no user to own it.
NoAdminUser_RecordsRun ==
    /\ pc = "start"
    /\ ~dbUser
    /\ pc' = "exit1"
    /\ thrown' = "No admin user found. Run db:seed first."
    /\ dbRuns' = Append(dbRuns, [status |-> "FAILED", finished |-> TRUE,
                                 includedArticleIds |-> <<>>, feedItemsIncluded |-> <<>>,
                                 error |-> "No admin user found. Run db:seed first."])
    /\ UNCHANGED <<env, dbUser, dbArticles, storedAtStart, savedArticles,
                   existingHashes, feedItems, scoredItems, newItems, selectedFeedItems,
                   exI, extractedContent, articlesForRanking, rankings, summaries,
                   tieredArticles, digestRun, extractOk, epubs, deliveries, invocations>>

\* db.user.findFirst() finds nobody: main throws before a run record exists.
NoAdminUser ==
    /\ pc = "start"
    /\ ~dbUser
    /\ pc' = "exit1"
    /\ UNCHANGED <<env, dbUser, dbArticles, dbRuns, storedAtStart, savedArticles,
                   existingHashes, feedItems, scoredItems, newItems, selectedFeedItems,
                   exI, extractedContent, articlesForRanking, rankings, summaries,
                   tieredArticles>>
    /\ thrown' = "No admin user found. Run db:seed first."
    /\ UNCHANGED <<digestRun, extractOk, epubs, deliveries, invocations>>

\* Steps 1 and 2: the run record is created, the saved articles and the stored
\* hashes are read.
Start ==
    /\ pc = "start"
    /\ dbUser
    /\ dbRuns' = Append(dbRuns, [status |-> "SUCCESS", finished |-> FALSE,
                                 includedArticleIds |-> <<>>, feedItemsIncluded |-> <<>>,
                                 error |-> ""])
    /\ savedArticles' = FindSavedArticles(dbArticles, env.limits.DIGEST_MAX_SAVED)
    /\ existingHashes' = ExistingHashes(dbArticles)
    /\ storedAtStart' = dbArticles
    /\ pc' = "fetch"
    /\ UNCHANGED <<env, dbUser, dbArticles, feedItems, scoredItems, newItems,
                   selectedFeedItems, exI, extractedContent, articlesForRanking, rankings,
                   summaries, tieredArticles>>
    /\ digestRun' = Len(dbRuns) + 1
    /\ UNCHANGED <<extractOk, epubs, deliveries, thrown, invocations>>

\* A catch block that leaves the run record as it is.
MarkFailed_RecordKept(runs, run, message) == runs

\* catch (error): if (digestRun) the record gets status FAILED, the error message
\* and a finish time.
MarkFailed(runs, run, message) ==
    IF run = 0 THEN runs
    ELSE [runs EXCEPT ![run] =
             [@ EXCEPT !.finished = TRUE, !.status = "FAILED", !.error = message]]

\* Step 3: the feeds in `up` answer, the others fail; the items are scored,
\* deduplicated against the stored articles and selected.
FetchAndSelect ==
    /\ pc = "fetch"
    /\ LET parsed == ParseDigestInterests(env.DIGEST_INTERESTS_JSON)
           interests == parsed.value
           allFeeds == AllFeeds(env.RSS_FEEDS, interests)
       IN  IF parsed.threw
           THEN /\ thrown' = "parseDigestInterests threw"
                /\ dbRuns' = MarkFailed(dbRuns, digestRun, "parseDigestInterests threw")
                /\ pc' = "exit1"
                /\ UNCHANGED <<feedItems, scoredItems, newItems, selectedFeedItems>>
           ELSE /\ \E up \in SUBSET Range(allFeeds) :
                      LET fetched == FetchMultipleFeeds(allFeeds, FeedContents, up)
                          scored == ScoreAndRankFeedItems(fetched, interests)
                          fresh == NewItems(scored, existingHashes)
                      IN  /\ feedItems' = fetched
                          /\ scoredItems' = scored
                          /\ newItems' = fresh
                          /\ selectedFeedItems' =
                                SelectDiverseItems(fresh, env.limits.DIGEST_MAX_RSS,
                                                   env.limits.DIGEST_MAX_PER_TOPIC)
                /\ pc' = "selected"
                /\ UNCHANGED <<dbRuns, thrown>>
    /\ UNCHANGED <<env, dbUser, dbArticles, storedAtStart, savedArticles,
                   existingHashes, exI, extractedContent, articlesForRanking, rankings,
                   summaries, tieredArticles>>
    /\ UNCHANGED <<digestRun, extractOk, epubs, deliveries, invocations>>

\* A run without the check of step 4: it goes on to extraction with nothing.
EarlyExit_FallsThrough ==
    /\ pc = "selected"
    /\ Len(savedArticles) = 0 /\ Len(selectedFeedItems) = 0
    /\ pc' = "extract"
    /\ UNCHANGED <<env, dbUser, dbArticles, dbRuns, storedAtStart, savedArticles,
                   existingHashes, feedItems, scoredItems, newItems, selectedFeedItems,
                   exI, extractedContent, articlesForRanking, rankings, summaries,
                   tieredArticles, digestRun, extractOk, epubs, deliveries, thrown,
                   invocations>>

\* Step 4: nothing to process; the run ends as a SUCCESS with a note.
EarlyExit ==
    /\ pc = "selected"
    /\ Len(savedArticles) = 0 /\ Len(selectedFeedItems) = 0
    /\ dbRuns' = [dbRuns EXCEPT ![digestRun] =
                    [@ EXCEPT !.finished = TRUE, !.status = "SUCCESS",
                              !.includedArticleIds = <<>>, !.feedItemsIncluded = <<>>,
                              !.error = "No articles available"]]
    /\ pc' = "exit0"
    /\ UNCHANGED <<env, dbUser, dbArticles, storedAtStart, savedArticles,
                   existingHashes, feedItems, scoredItems, newItems, selectedFeedItems,
                   exI, extractedContent, articlesForRanking, rankings, summaries,
                   tieredArticles>>
    /\ UNCHANGED <<digestRun, extractOk, epubs, deliveries, thrown, invocations>>

\* Step 5, first loop: the saved articles have their content in the table.
BeginExtract ==
    /\ pc = "selected"
    /\ ~(Len(savedArticles) = 0 /\ Len(selectedFeedItems) = 0)
    /\ extractedContent' = SavedContent(EmptyMap, savedArticles, 1)
    /\ exI' = 0
    /\ pc' = "extract"
    /\ UNCHANGED <<env, dbUser, dbArticles, dbRuns, storedAtStart, savedArticles,
                   existingHashes, feedItems, scoredItems, newItems, selectedFeedItems,
                   articlesForRanking, rankings, summaries, tieredArticles>>
    /\ UNCHANGED <<digestRun, extractOk, epubs, deliveries, thrown, invocations>>

\* Step 5, one iteration of the loop over selectedFeedItems. An extraction that
\* throws (always, for a link that is no URL) is logged. A row is created when
\* DIGEST_SAVE_FEED_ITEMS is set; a create that meets a stored contentHash throws
\* after the content was put into the map.
ExtractItem ==
    /\ pc = "extract"
    /\ exI < Len(selectedFeedItems)
    /\ LET item == selectedFeedItems[exI + 1]
           extracted == ExtractedArticle(item.link)
       IN  \E ok \in (IF item.link.valid THEN BOOLEAN ELSE {FALSE}) :
            /\ extractOk' = Append(extractOk, ok)
            /\ IF ~ok THEN UNCHANGED <<extractedContent, dbArticles>>
               ELSE
                   /\ extractedContent' =
                         MapSet(extractedContent, item.link,
                                [html |-> extracted.contentHtml,
                                 text |-> extracted.contentText])
                   /\ IF /\ env.DIGEST_SAVE_FEED_ITEMS
                         /\ extracted.contentHash \notin {a.contentHash : a \in dbArticles}
                      THEN dbArticles' = dbArticles \cup
                              {[id |-> CHOOSE id \in NewIds :
                                          id \notin {a.id : a \in dbArticles},
                                status |-> "ARCHIVED", sent |-> FALSE,
                                favorited |-> FALSE, createdAt |-> 10 + exI,
                                url |-> item.link,
                                canonicalUrl |-> extracted.canonicalUrl,
                                contentHash |-> extracted.contentHash,
                                excerpt |-> 200, contentText |-> extracted.contentText]}
                      ELSE UNCHANGED dbArticles
    /\ exI' = exI + 1
    /\ UNCHANGED <<pc, env, dbUser, dbRuns, storedAtStart, savedArticles, existingHashes,
                   feedItems, scoredItems, newItems, selectedFeedItems,
                   articlesForRanking, rankings, summaries, tieredArticles>>
    /\ UNCHANGED <<digestRun, epubs, deliveries, thrown, invocations>>

\* Steps 6 and 7: the list for ranking is built and ranked. With the LLM enabled
\* rankArticlesBatch runs on the responses it gets, or throws before its first
\* request (an error outside its try block) and main falls back; without it the
\* fallback ranking is used.
BuildAndRank ==
    /\ pc = "extract"
    /\ exI = Len(selectedFeedItems)
    /\ LET articles == ArticlesForRanking(savedArticles, selectedFeedItems, extractedContent)
       IN  /\ articlesForRanking' = articles
           /\ IF env.llmEnabled
              THEN \/ \E resps \in RunRankResponses(articles) :
                         rankings' = RankArticlesBatch(articles, resps)
                   \/ /\ Len(articles) > 0
                      /\ rankings' = ApplyFallbackRanking(articles)
              ELSE rankings' = ApplyFallbackRanking(articles)
    /\ pc' = "ranked"
    /\ UNCHANGED <<env, dbUser, dbArticles, dbRuns, storedAtStart, savedArticles,
                   existingHashes, feedItems, scoredItems, newItems, selectedFeedItems,
                   exI, extractedContent, summaries, tieredArticles>>
    /\ UNCHANGED <<digestRun, extractOk, epubs, deliveries, thrown, invocations>>

\* Steps 8 and 9: the summaries are generated and the tiered articles assembled.
Summarize ==
    /\ pc = "ranked"
    /\ LET inputs == ArticlesWithTiers(articlesForRanking, rankings)
       IN  \E sums \in (IF env.llmEnabled
                        THEN {GenerateSummariesBatch(inputs, o) :
                                 o \in RunSummaryOutcomes(Len(inputs))}
                        ELSE {GenerateFallbackSummaries(inputs)}) :
              /\ summaries' = sums
              /\ tieredArticles' =
                    [k \in DOMAIN inputs |-> TieredArticle(inputs[k], extractedContent, sums)]
    /\ pc' = "assembled"
    /\ UNCHANGED <<env, dbUser, dbArticles, dbRuns, storedAtStart, savedArticles,
                   existingHashes, feedItems, scoredItems, newItems, selectedFeedItems,
                   exI, extractedContent, articlesForRanking, rankings>>
    /\ UNCHANGED <<digestRun, extractOk, epubs, deliveries, thrown, invocations>>

\* tieredArticles.filter((a) => a.tier === tier)
TierList(tiered, tier) ==
    FilterIdx(tiered, {k \in DOMAIN tiered : tiered[k].tier = tier}, 1)

\* A full-article list that takes every tier.
FullArticlesForEpub_AllTiers(tiered) ==
    FilterIdx(tiered, {k \in DOMAIN tiered : tiered[k].contentHtml # ""}, 1)

\* const fullArticlesForEpub = criticalArticles.filter((a) => a.contentHtml)
FullArticlesForEpub(tiered) ==
    LET criticalArticles == TierList(tiered, "critical")
    IN  FilterIdx(criticalArticles,
                  {k \in DOMAIN criticalArticles : criticalArticles[k].contentHtml # ""}, 1)

\* The statistics main hands to sendTieredDigestToKindle.
DigestStats(tiered) ==
    [critical |-> Len(TierList(tiered, "critical")),
     notable |-> Len(TierList(tiered, "notable")),
     related |-> Len(TierList(tiered, "related")),
     fullArticles |-> Len(FullArticlesForEpub(tiered))]

\* Step 10: the summary EPUB, then the full-articles EPUB; either generation can
\* throw, which ends the run in the catch block.
GenerateEpubs ==
    /\ pc = "assembled"
    /\ \E failAt \in {0, 1, 2} :
          /\ epubs' =
                (IF failAt = 1 THEN <<>>
                 ELSE <<[kind |-> "summary",
                         criticalArticles |-> TierList(tieredArticles, "critical"),
                         notableArticles |-> TierList(tieredArticles, "notable"),
                         relatedArticles |-> TierList(tieredArticles, "related")]>>)
                \o (IF failAt = 0
                    THEN <<[kind |-> "full",
                            articles |-> FullArticlesForEpub(tieredArticles)]>>
                    ELSE <<>>)
          /\ IF failAt = 0
             THEN /\ pc' = "epubs"
                  /\ UNCHANGED <<dbRuns, thrown>>
             ELSE /\ thrown' = "EPUB generation failed"
                  /\ dbRuns' = MarkFailed(dbRuns, digestRun, "EPUB generation failed")
                  /\ pc' = "exit1"
    /\ UNCHANGED <<env, dbUser, dbArticles, storedAtStart, savedArticles, existingHashes,
                   feedItems, scoredItems, newItems, selectedFeedItems, exI,
                   extractedContent, articlesForRanking, rankings, summaries,
                   tieredArticles, digestRun, extractOk, deliveries, invocations>>

\* Step 11: sendTieredDigestToKindle. Without a recipient it throws before any
\* call; otherwise one resend.emails.send call with the two attachments is made,
\* which returns a message id, or fails (it throws or answers with an error).
SendToKindle ==
    /\ pc = "epubs"
    /\ \E outcome \in {"ok", "noRecipients", "failed"} :
          /\ deliveries' =
                IF outcome = "noRecipients" THEN deliveries
                ELSE Append(deliveries,
                            [run |-> digestRun, attachments |-> Len(epubs),
                             articles |-> Len(tieredArticles),
                             stats |-> DigestStats(tieredArticles),
                             ok |-> outcome = "ok"])
          /\ IF outcome = "ok"
             THEN /\ pc' = "sent"
                  /\ UNCHANGED <<dbRuns, thrown>>
             ELSE LET message == IF outcome = "noRecipients"
                                 THEN "No Kindle email addresses configured (KINDLE_EMAIL_TO)"
                                 ELSE "Failed to send email"
                  IN  /\ thrown' = message
                      /\ dbRuns' = MarkFailed(dbRuns, digestRun, message)
                      /\ pc' = "exit1"
    /\ UNCHANGED <<env, dbUser, dbArticles, storedAtStart, savedArticles, existingHashes,
                   feedItems, scoredItems, newItems, selectedFeedItems, exI,
                   extractedContent, articlesForRanking, rankings, summaries,
                   tieredArticles, digestRun, extractOk, epubs, invocations>>

\* const includedArticleIds
IncludedArticleIds(saved, tiered) ==
    LET kept == FilterIdx(saved, {k \in DOMAIN saved :
                                     \E t \in DOMAIN tiered : tiered[t].id = saved[k].id}, 1)
    IN  [k \in DOMAIN kept |-> kept[k].id]

\* feedItemsIncluded: selectedFeedItems.map(...)
FeedItemsIncluded(selected, ranks) ==
    [k \in DOMAIN selected |->
        [link |-> selected[k].link, score |-> selected[k].score,
         tier |-> TierOf(ranks, selected[k].link), topics |-> selected[k].matchedTopics]]

\* An update that has no where clause.
MarkSentArticles_Unfiltered(articles, included) ==
    {[a EXCEPT !.sent = TRUE] : a \in articles}

\* db.article.updateMany({ where: { id: { in: includedArticleIds } },
\*                         data: { sentToKindleAt: now } })
MarkSentArticles(articles, included) ==
    {IF a.id \in Range(included) THEN [a EXCEPT !.sent = TRUE] ELSE a : a \in articles}

\* Step 12: the included saved articles are marked as sent and the run record is
\* completed; main returns and the process exits with code 0.
UpdateRecords ==
    /\ pc = "sent"
    /\ LET included == IncludedArticleIds(savedArticles, tieredArticles)
       IN  /\ dbArticles' = MarkSentArticles(dbArticles, included)
           /\ dbRuns' = [dbRuns EXCEPT ![digestRun] =
                           [@ EXCEPT !.finished = TRUE, !.status = "SUCCESS",
                                     !.includedArticleIds = included,
                                     !.feedItemsIncluded =
                                         FeedItemsIncluded(selectedFeedItems, rankings)]]
    /\ pc' = "exit0"
    /\ UNCHANGED <<env, dbUser, storedAtStart, savedArticles, existingHashes,
                   feedItems, scoredItems, newItems, selectedFeedItems, exI,
                   extractedContent, articlesForRanking, rankings, summaries,
                   tieredArticles, digestRun, extractOk, epubs, deliveries, thrown,
                   invocations>>

Next ==
    \/ NoAdminUser /\ UNCHANGED <<selVars, rkVars, fnVars, smVars, snVars>>
    \/ Start /\ UNCHANGED <<selVars, rkVars, fnVars, smVars, snVars>>
    \/ FetchAndSelect /\ UNCHANGED <<selVars, rkVars, fnVars, smVars, snVars>>
    \/ EarlyExit /\ UNCHANGED <<selVars, rkVars, fnVars, smVars, snVars>>
    \/ BeginExtract /\ UNCHANGED <<selVars, rkVars, fnVars, smVars, snVars>>
    \/ ExtractItem /\ UNCHANGED <<selVars, rkVars, fnVars, smVars, snVars>>
    \/ BuildAndRank /\ UNCHANGED <<selVars, rkVars, fnVars, smVars, snVars>>
    \/ Summarize /\ UNCHANGED <<selVars, rkVars, fnVars, smVars, snVars>>
    \/ GenerateEpubs /\ UNCHANGED <<selVars, rkVars, fnVars, smVars, snVars>>
    \/ SendToKindle /\ UNCHANGED <<selVars, rkVars, fnVars, smVars, snVars>>
    \/ UpdateRecords /\ UNCHANGED <<selVars, rkVars, fnVars, smVars, snVars>>

Spec == Init /\ [][Next]_vars

\* ------------------------------------------------------------------ repeated runs
\* The cron job invoked again in the same period: each invocation is a fresh
\* process running main on the same database, environment and feeds.

MaxInvocations == 2

\* The environments of the repeated runs: no OPENAI_API_KEY.
CronEnvs == {e \in RunEnvs : ~e.llmEnabled}

CronInit ==
    /\ pc = "start"
    /\ env \in CronEnvs
    /\ dbUser \in BOOLEAN
    /\ dbArticles \in (IF dbUser THEN SUBSET StoredCatalogue ELSE {{}})
    /\ dbRuns = <<>>
    /\ storedAtStart = {}
    /\ savedArticles = <<>>
    /\ existingHashes = {}
    /\ feedItems = <<>>
    /\ scoredItems = <<>>
    /\ newItems = <<>>
    /\ selectedFeedItems = <<>>
    /\ exI = 0
    /\ extractedContent = <<>>
    /\ articlesForRanking = <<>>
    /\ rankings = <<>>
    /\ summaries = <<>>
    /\ tieredArticles = <<>>
    /\ digestRun = 0
    /\ extractOk = <<>>
    /\ epubs = <<>>
    /\ deliveries = <<>>
    /\ thrown = ""
    /\ invocations = 1
    /\ SelIdle
    /\ RkIdle
    /\ FnIdle
    /\ SmIdle
    /\ SnIdle

\* The process has exited and the job is started again: main begins with its
\* locals unset; the database and the calls already made to the mail service stay.
Reinvoke ==
    /\ pc \in {"exit0", "exit1"}
    /\ invocations < MaxInvocations
    /\ invocations' = invocations + 1
    /\ pc' = "start"
    /\ storedAtStart' = {}
    /\ savedArticles' = <<>>
    /\ existingHashes' = {}
    /\ feedItems' = <<>>
    /\ scoredItems' = <<>>
    /\ newItems' = <<>>
    /\ selectedFeedItems' = <<>>
    /\ exI' = 0
    /\ extractedContent' = <<>>
    /\ articlesForRanking' = <<>>
    /\ rankings' = <<>>
    /\ summaries' = <<>>
    /\ tieredArticles' = <<>>
    /\ digestRun' = 0
    /\ extractOk' = <<>>
    /\ epubs' = <<>>
    /\ thrown' = ""
    /\ UNCHANGED <<env, dbUser, dbArticles, dbRuns, deliveries>>

CronNext ==
    \/ NoAdminUser /\ UNCHANGED <<selVars, rkVars, fnVars, smVars, snVars>>
    \/ Start /\ UNCHANGED <<selVars, rkVars, fnVars, smVars, snVars>>
    \/ FetchAndSelect /\ UNCHANGED <<selVars, rkVars, fnVars, smVars, snVars>>
    \/ EarlyExit /\ UNCHANGED <<selVars, rkVars, fnVars, smVars, snVars>>
    \/ BeginExtract /\ UNCHANGED <<selVars, rkVars, fnVars, smVars, snVars>>
    \/ ExtractItem /\ UNCHANGED <<selVars, rkVars, fnVars, smVars, snVars>>
    \/ BuildAndRank /\ UNCHANGED <<selVars, rkVars, fnVars, smVars, snVars>>
    \/ Summarize /\ UNCHANGED <<selVars, rkVars, fnVars, smVars, snVars>>
    \/ GenerateEpubs /\ UNCHANGED <<selVars, rkVars, fnVars, smVars, snVars>>
    \/ SendToKindle /\ UNCHANGED <<selVars, rkVars, fnVars, smVars, snVars>>
    \/ UpdateRecords /\ UNCHANGED <<selVars, rkVars, fnVars, smVars, snVars>>
    \/ Reinvoke /\ UNCHANGED <<selVars, rkVars, fnVars, smVars, snVars>>

SpecCron == CronInit /\ [][CronNext]_vars

\* ------------------------------------------------------------------ SpecFallbackRanking

MaxFbFree == 4

MaxFbArticles == 10

\* createArticle(id, isManualSave, matchedTopics) with `topics` matched topics
FbArticle(id, isManualSave, topics) ==
    [id |-> id, isManualSave |-> isManualSave,
     matchedTopics |-> SubSeq(<<"topic1", "topic2", "topic3">>, 1, topics)]

\* Lists of up to MaxFbFree articles of every kind, and longer lists, up to
\* MaxFbArticles, of a few shapes: feed items with one topic; the first three with
\* two topics and the others with one; manual saves at the even positions and
\* topic counts going round; manual saves without topics after feed items with two.
FbInputs ==
    UNION {{[k \in 1..n |-> FbArticle(k, f[k][1], f[k][2])] :
               f \in [1..n -> BOOLEAN \X (0..2)]} : n \in 0..MaxFbFree}
    \cup UNION {{[k \in 1..n |-> FbArticle(k, FALSE, 1)],
                 [k \in 1..n |-> FbArticle(k, FALSE, IF k <= 3 THEN 2 ELSE 1)],
                 [k \in 1..n |-> FbArticle(k, k % 2 = 0, k % 3)],
                 [k \in 1..n |-> FbArticle(k, k > n \div 2, IF k > n \div 2 THEN 0 ELSE 2)]} :
                   n \in (MaxFbFree + 1)..MaxFbArticles}

FbInit ==
    /\ fnPc = "call"
    /\ fnArg \in FbInputs
    /\ fnResult = <<>>
    /\ SelIdle
    /\ RkIdle
    /\ RunIdle
    /\ SmIdle
    /\ SnIdle

FallbackRankingCall ==
    /\ fnPc = "call"
    /\ fnResult' = ApplyFallbackRanking(fnArg)
    /\ fnPc' = "done"
    /\ UNCHANGED fnArg

FbNext == FallbackRankingCall /\ UNCHANGED <<selVars, rkVars, runVars, smVars, snVars>>

SpecFallbackRanking == FbInit /\ [][FbNext]_vars

\* ------------------------------------------------------------------ SpecFallbackSummaries

MaxFsArticles == 2

MaxExcerptLen == 500

\* Excerpt lengths around the two cuts.
FsExcerptLens == {0, 12, 150, 151, 400, 401, MaxExcerptLen}

\* Inputs of one to MaxFsArticles entries; the ids are distinct or all the same.
FsInputs ==
    UNION {{[k \in 1..n |->
                [article |-> [id |-> IF sameId THEN 1 ELSE k,
                              title |-> Text("title", 5 + k),
                              excerpt |-> f[k][1]],
                 tier |-> f[k][2]]] :
               f \in [1..n -> FsExcerptLens \X Tiers], sameId \in BOOLEAN} :
           n \in 1..MaxFsArticles}

FsInit ==
    /\ fnPc = "call"
    /\ fnArg \in FsInputs
    /\ fnResult = <<>>
    /\ SelIdle
    /\ RkIdle
    /\ RunIdle
    /\ SmIdle
    /\ SnIdle

FallbackSummariesCall ==
    /\ fnPc = "call"
    /\ fnResult' = GenerateFallbackSummaries(fnArg)
    /\ fnPc' = "done"
    /\ UNCHANGED fnArg

FsNext == FallbackSummariesCall /\ UNCHANGED <<selVars, rkVars, runVars, smVars, snVars>>

SpecFallbackSummaries == FsInit /\ [][FsNext]_vars

\* ------------------------------------------------------------------ SpecSummaries
\* generateSummariesBatch with the requests of a group in flight at the same time.

MaxSmArticles == 7

\* Inputs of up to MaxSmArticles entries; the ids are distinct, or the last entry
\* has the id of the first.
SmInputs ==
    UNION {{[k \in 1..n |->
                [article |-> [id |-> IF sharedId /\ k = n THEN 1 ELSE k,
                              title |-> Text("title", 5 + k),
                              excerpt |-> 100 + k],
                 tier |-> IF k % 3 = 1 THEN "critical"
                          ELSE IF k % 3 = 2 THEN "notable" ELSE "related"]] :
               sharedId \in BOOLEAN} :
           n \in 0..MaxSmArticles}

\* What a completion request that was sent can produce.
SmRequestOutcomes ==
    {SummaryOutcome("json", Text("llm", 80), Text("llm", 20)),
     SummaryOutcome("fail", Undefined, Undefined)}

\* A group that takes every remaining article.
GroupEnd_Rest(i, n) == n

\* articles.slice(i, i + CONCURRENCY): the position of the last article of the group
GroupEnd(i, n) == Min(i + CONCURRENCY, n)

SmInit ==
    /\ smPc = "loop"
    /\ smArticles \in SmInputs
    /\ smI = 0
    /\ smPromises = [k \in DOMAIN smArticles |-> "none"]
    /\ smOutcomes = [k \in DOMAIN smArticles |-> SummaryOutcome("none", Undefined, Undefined)]
    /\ smResults = EmptyMap
    /\ SelIdle
    /\ RkIdle
    /\ RunIdle
    /\ FnIdle
    /\ SnIdle

\* batch.map(async ...): every call of the group runs up to its first await. Its
\* promise is pending with the completion request sent, or it is rejected at once
\* by an error before the try block (no request is sent).
StartGroup ==
    /\ smPc = "loop"
    /\ smI < Len(smArticles)
    /\ LET group == (smI + 1)..GroupEnd(smI, Len(smArticles))
       IN  \E rejected \in SUBSET group :
              /\ smPromises' = [k \in DOMAIN smPromises |->
                                   IF k \in rejected THEN "rejected"
                                   ELSE IF k \in group THEN "pending"
                                   ELSE smPromises[k]]
              /\ smOutcomes' = [k \in DOMAIN smOutcomes |->
                                   IF k \in rejected
                                   THEN SummaryOutcome("reject", Undefined, Undefined)
                                   ELSE smOutcomes[k]]
    /\ smPc' = "await"
    /\ UNCHANGED <<smArticles, smI, smResults>>

\* The request of one pending call settles and generateSummary returns: with the
\* parsed summary, or with the excerpt when the request or the parsing failed.
RequestSettles ==
    /\ smPc = "await"
    /\ \E k \in {x \in DOMAIN smPromises : smPromises[x] = "pending"} :
          \E o \in SmRequestOutcomes :
              /\ smPromises' = [smPromises EXCEPT ![k] = "fulfilled"]
              /\ smOutcomes' = [smOutcomes EXCEPT ![k] = o]
    /\ UNCHANGED <<smPc, smArticles, smI, smResults>>

\* await Promise.allSettled(promises) resumes when every promise of the group has
\* settled; the fulfilled values are set in the map and the loop goes on.
CollectGroup ==
    /\ smPc = "await"
    /\ \A k \in (smI + 1)..GroupEnd(smI, Len(smArticles)) :
          smPromises[k] \in {"fulfilled", "rejected"}
    /\ smResults' = SettleBatch(smResults, smArticles, smOutcomes, smI + 1,
                                GroupEnd(smI, Len(smArticles)))
    /\ smI' = smI + CONCURRENCY
    /\ smPc' = "loop"
    /\ UNCHANGED <<smArticles, smPromises, smOutcomes>>

\* return results
SummariesReturn ==
    /\ smPc = "loop"
    /\ smI >= Len(smArticles)
    /\ smPc' = "returned"
    /\ UNCHANGED <<smArticles, smI, smPromises, smOutcomes, smResults>>

SmNext ==
    \/ StartGroup /\ UNCHANGED <<selVars, rkVars, runVars, fnVars, snVars>>
    \/ RequestSettles /\ UNCHANGED <<selVars, rkVars, runVars, fnVars, snVars>>
    \/ CollectGroup /\ UNCHANGED <<selVars, rkVars, runVars, fnVars, snVars>>
    \/ SummariesReturn /\ UNCHANGED <<selVars, rkVars, runVars, fnVars, snVars>>

SpecSummaries == SmInit /\ [][SmNext]_vars

\* ------------------------------------------------------------------ SpecSendNow
\* One request to send a single article: POST /articles/:id/send-to-kindle-now of
\* the API and POST /articles/:id/send-to-kindle of the UI.

\* Largest sentToKindleAt an article can have before the request.
MaxSentAt == 2

\* The row findFirst returns for the id and user of the request, <<>> for none.
SnArticles == {<<>>} \cup {[id |-> "a1", sentToKindleAt |-> t] : t \in 0..MaxSentAt}

\* The errors generateEpub and sendDigestToKindle throw, with whether the send
\* call was made before.
SnEpubErrors == {"EPUB generation failed"}

SnDeliveryErrors ==
    {[message |-> "No Kindle email addresses configured (KINDLE_EMAIL_TO)", called |-> FALSE],
     [message |-> "RESEND_API_KEY environment variable is not set", called |-> FALSE],
     [message |-> "EMAIL_FROM environment variable is not set", called |-> FALSE],
     [message |-> "Failed to send email: rejected", called |-> TRUE]}

\* The reply for a missing article.
NotFoundResponse(route) ==
    IF route = "api"
    THEN [status |-> 404, body |-> [error |-> "Article not found"]]
    ELSE [status |-> 302, location |-> <<"/?message=", "Article not found">>]

\* An error reply that does not carry the message.
ErrorResponse_NoMessage(route, message) ==
    IF route = "api"
    THEN [status |-> 500, body |-> [error |-> "Failed to send to Kindle",
                                    message |-> "Unknown error"]]
    ELSE [status |-> 302, location |-> <<"/?message=", "Failed to send to Kindle">>]

\* The reply of the catch block: status 500 with error and message (API), a
\* redirect whose message parameter ends with the error message (UI).
ErrorResponse(route, message) ==
    IF route = "api"
    THEN [status |-> 500, body |-> [error |-> "Failed to send to Kindle",
                                    message |-> message]]
    ELSE [status |-> 302,
          location |-> <<"/?message=", "Failed to send to Kindle: ", message>>]

\* The reply after the article was sent and marked.
SuccessResponse(route) ==
    IF route = "api"
    THEN [status |-> 200, body |-> [success |-> TRUE, messageId |-> "id"]]
    ELSE [status |-> 302, location |-> <<"/?message=", "Sent to Kindle!">>]

SnInit ==
    /\ snPc = "request"
    /\ snRoute \in {"api", "ui"}
    /\ snArticle \in SnArticles
    /\ snSentAt = (IF snArticle = <<>> THEN 0 ELSE snArticle.sentToKindleAt)
    /\ snNow \in (MaxSentAt + 1)..(MaxSentAt + 2)
    /\ snCalls = <<>>
    /\ snThrown = ""
    /\ snResponse = <<>>
    /\ SelIdle
    /\ RkIdle
    /\ RunIdle
    /\ FnIdle
    /\ SmIdle

\* findFirst({ where: { id, userId } }) and the reply for a missing article
FindArticle ==
    /\ snPc = "request"
    /\ IF snArticle = <<>>
       THEN /\ snResponse' = NotFoundResponse(snRoute)
            /\ snPc' = "responded"
       ELSE /\ snPc' = "found"
            /\ UNCHANGED snResponse
    /\ UNCHANGED <<snRoute, snArticle, snSentAt, snNow, snCalls, snThrown>>

\* generateEpub returns the document or throws.
GenerateEpub ==
    /\ snPc = "found"
    /\ \/ /\ snPc' = "epub"
          /\ UNCHANGED <<snThrown, snResponse>>
       \/ \E message \in SnEpubErrors :
             /\ snThrown' = message
             /\ snResponse' = ErrorResponse(snRoute, message)
             /\ snPc' = "responded"
    /\ UNCHANGED <<snRoute, snArticle, snSentAt, snNow, snCalls>>

\* sendDigestToKindle returns the message id or throws, before the send call or
\* because of its answer.
SendDigest ==
    /\ snPc = "epub"
    /\ \/ /\ snCalls' = Append(snCalls, [ok |-> TRUE, attachments |-> 1])
          /\ snPc' = "delivered"
          /\ UNCHANGED <<snThrown, snResponse>>
       \/ \E e \in SnDeliveryErrors :
             /\ snCalls' = (IF e.called
                            THEN Append(snCalls, [ok |-> FALSE, attachments |-> 1])
                            ELSE snCalls)
             /\ snThrown' = e.message
             /\ snResponse' = ErrorResponse(snRoute, e.message)
             /\ snPc' = "responded"
    /\ UNCHANGED <<snRoute, snArticle, snSentAt, snNow>>

\* db.article.update({ data: { sentToKindleAt: now } }) and the reply; an update
\* that throws ends in the catch block as well.
MarkSent ==
    /\ snPc = "delivered"
    /\ \/ /\ snSentAt' = snNow
          /\ snResponse' = SuccessResponse(snRoute)
          /\ UNCHANGED snThrown
       \/ /\ snThrown' = "update failed"
          /\ snResponse' = ErrorResponse(snRoute, "update failed")
          /\ UNCHANGED snSentAt
    /\ snPc' = "responded"
    /\ UNCHANGED <<snRoute, snArticle, snNow, snCalls>>

SnNext ==
    \/ FindArticle /\ UNCHANGED <<selVars, rkVars, runVars, fnVars, smVars>>
    \/ GenerateEpub /\ UNCHANGED <<selVars, rkVars, runVars, fnVars, smVars>>
    \/ SendDigest /\ UNCHANGED <<selVars, rkVars, runVars, fnVars, smVars>>
    \/ MarkSent /\ UNCHANGED <<selVars, rkVars, runVars, fnVars, smVars>>

SpecSendNow == SnInit /\ [][SnNext]_vars

\* ------------------------------------------------------------------ SpecCanonicalize
\* canonicalizeUrl applied to bounded URLs and to strings that do not parse.

\* Largest number of leading "www." labels and of trailing slashes of an input.
MaxWww == 2

MaxSlashes == 2

\* The URLs new URL() accepts (a pathname is never empty: the root is one slash)
\* and two strings it rejects.
CanonInputs ==
    {u \in {Url(scheme, www, upper, "example.com", path, slashes, tracking, query) :
               scheme \in {"http", "https"}, www \in 0..MaxWww, upper \in BOOLEAN,
               path \in {"", "/article"}, slashes \in 0..MaxSlashes,
               tracking \in BOOLEAN, query \in {"", "id=1"}} :
        u.path = "" => u.slashes >= 1}
      \cup {Str("not-a-valid-url"), Str("")}

CanonInit ==
    /\ fnPc = "call"
    /\ fnArg \in CanonInputs
    /\ fnResult = <<>>
    /\ SelIdle
    /\ RkIdle
    /\ RunIdle
    /\ SmIdle
    /\ SnIdle

CanonicalizeCall ==
    /\ fnPc = "call"
    /\ fnResult' = CanonicalizeUrl(fnArg)
    /\ fnPc' = "done"
    /\ UNCHANGED fnArg

CanonNext == CanonicalizeCall /\ UNCHANGED <<selVars, rkVars, runVars, smVars, snVars>>

SpecCanonicalize == CanonInit /\ [][CanonNext]_vars

\* ------------------------------------------------------------------ SpecScoreKeyword
\* scoreKeyword on strings, character by character. A string is a sequence of
\* characters: the letter a in lower and upper case, a full stop, a blank, an
\* underscore.

Chars == {"a", "A", ".", " ", "_"}

MaxTextLen == 5

\* String.prototype.toLowerCase, on one character
Lower(c) == IF c = "A" THEN "a" ELSE c

\* A normalization that keeps the text as it is.
NormalizeChars_Identity(str) == str

\* normalizeText: text.toLowerCase().replace(/[^a-z0-9\s-]/g, ' ')
NormalizeChars(str) ==
    [i \in DOMAIN str |-> IF Lower(str[i]) \in {"a", " "} THEN Lower(str[i]) ELSE " "]

\* \w of a regular expression
IsWordChar(c) == c \in {"a", "A", "_"}

\* \b before position q of str (q = Len(str) + 1 is the end of the string)
WordBoundary(str, q) ==
    (q > 1 /\ IsWordChar(str[q - 1])) # (q <= Len(str) /\ IsWordChar(str[q]))

\* /\bpattern\b/i matches at position q of str
RegexMatchAt(pattern, str, q) ==
    /\ q + Len(pattern) - 1 <= Len(str)
    /\ WordBoundary(str, q)
    /\ \A j \in DOMAIN pattern : Lower(str[q + j - 1]) = Lower(pattern[j])
    /\ WordBoundary(str, q + Len(pattern))

\* A count that goes on one character after the start of a match.
RECURSIVE RegexMatchCount_Overlapping(_, _, _)
RegexMatchCount_Overlapping(pattern, str, q) ==
    IF q > Len(str) + 1 THEN 0
    ELSE (IF RegexMatchAt(pattern, str, q) THEN 1 ELSE 0)
            + RegexMatchCount_Overlapping(pattern, str, q + 1)

\* str.match(/\bpattern\b/gi): number of matches from position q on; the search
\* goes on after the end of a match (one character further after an empty match).
RECURSIVE RegexMatchCount(_, _, _)
RegexMatchCount(pattern, str, q) ==
    IF q > Len(str) + 1 THEN 0
    ELSE IF RegexMatchAt(pattern, str, q)
         THEN 1 + RegexMatchCount(pattern, str, q + Max(Len(pattern), 1))
         ELSE RegexMatchCount(pattern, str, q + 1)

\* scoreKeyword on strings
ScoreKeywordText(keyword, text) ==
    LET matchCount == RegexMatchCount(NormalizeChars(keyword), NormalizeChars(text), 1)
    IN  IF matchCount = 0 THEN 0 ELSE Min(10, matchCount * 2)

\* Strings of n characters.
StringsOfLen(n) == [1..n -> Chars]

\* Keywords: 'a', 'A', 'aa', 'a a', 'a.a', 'a_', '.', ''.
KeywordInputs ==
    {<<"a">>, <<"A">>, <<"a", "a">>, <<"a", " ", "a">>, <<"a", ".", "a">>, <<"a", "_">>,
     <<".">>, <<>>}

\* Texts: every string of up to MaxTextLen characters, and 'A a A a A a'.
TextInputs ==
    UNION {StringsOfLen(n) : n \in 0..MaxTextLen}
      \cup {<<"A", " ", "a", " ", "A", " ", "a", " ", "A", " ", "a">>}

SkInit ==
    /\ fnPc = "call"
    /\ fnArg \in [keyword : KeywordInputs, text : TextInputs]
    /\ fnResult = <<>>
    /\ SelIdle
    /\ RkIdle
    /\ RunIdle
    /\ SmIdle
    /\ SnIdle

ScoreKeywordCall ==
    /\ fnPc = "call"
    /\ fnResult' = ScoreKeywordText(fnArg.keyword, fnArg.text)
    /\ fnPc' = "done"
    /\ UNCHANGED fnArg

SkNext == ScoreKeywordCall /\ UNCHANGED <<selVars, rkVars, runVars, smVars, snVars>>

SpecScoreKeyword == SkInit /\ [][SkNext]_vars

\* ================================================================== claims
\* ------------------------------------------------------------------ selectDiverseItems

\* Number of positions of idx whose item has primary topic t.
CountTopic(items, idx, t) ==
    Cardinality({k \in DOMAIN idx : PrimaryTopic(items[idx[k]]) = t})

PrimaryTopics(items) == {PrimaryTopic(items[i]) : i \in DOMAIN items}

RECURSIVE SumOver(_, _, _)
SumOver(S, items, maxPerTopic) ==
    IF S = {} THEN 0
    ELSE LET t == CHOOSE x \in S : TRUE
         IN  Min(maxPerTopic, CountTopic(items, [i \in DOMAIN items |-> i], t))
             + SumOver(S \ {t}, items, maxPerTopic)

\* What the per-topic cap lets through: sum over primary topics of
\* min(maxPerTopic, number of input items with that primary topic).
Supply(items, maxPerTopic) == SumOver(PrimaryTopics(items), items, maxPerTopic)

\* C5: selectDiverseItems returns exactly min(maxItems, number of input items) items.
C5_QuotaFilledNeverExceeded ==
    selPc = "done" => Len(selOut) = Min(selMaxItems, Len(selIn))

\* C5 witness: a call with more items than the quota whose quota was reached only
\* by the fill pass.
C5_Witness ==
    /\ selPc = "done"
    /\ selMaxItems > 0
    /\ Len(selIn) > selMaxItems
    /\ Len(selDiverse) < Len(selOut)
    /\ Len(selOut) = selMaxItems

ExampleItems == [i \in 1..6 |-> SelItem(i, IF i <= 4 THEN <<"tech">> ELSE <<"ai">>)]

\* C7: the result is the diversity pass's items in input order followed by the fill
\* pass's items in input order; the fill pass appends the highest-ranked items not
\* yet selected and never removes, reorders or duplicates; every result item is an
\* input item; the example list with maxItems=5, maxPerTopic=2 gives [100,90,60,50,80].
C7_DiversityThenFill ==
    selPc = "done" =>
        LET d == Len(selDiverse)
            n == Len(selOut)
        IN  /\ d <= n
            /\ \A k \in 1..d : selOut[k] = selDiverse[k]
            /\ \A k \in 1..n : selOut[k] \in DOMAIN selIn
            /\ \A j, k \in 1..n : j < k => selOut[j] # selOut[k]
            /\ \A j, k \in 1..d : j < k => selOut[j] < selOut[k]
            /\ \A j, k \in (d + 1)..n : j < k => selOut[j] < selOut[k]
            /\ \A k \in (d + 1)..n : \A i \in 1..(selOut[k] - 1) :
                  \E j \in 1..(k - 1) : selOut[j] = i
            /\ (selIn = ExampleItems /\ selMaxItems = 5 /\ selMaxPerTopic = 2)
                  => [k \in 1..n |-> selIn[selOut[k]].score] = <<100, 90, 60, 50, 80>>

\* C7 witness: the example call, whose last item comes from the fill pass.
C7_Witness ==
    /\ selPc = "done"
    /\ selIn = ExampleItems /\ selMaxItems = 5 /\ selMaxPerTopic = 2
    /\ Len(selDiverse) = 4
    /\ Len(selOut) = 5

IdsOf(articles) == {articles[k].id : k \in DOMAIN articles}

\* The ids a response's rankings array names.
NamedIds(resp) == {resp.rankings[k].id : k \in DOMAIN resp.rankings}

\* The batch the b-th loop iteration works on (b from 1).
RkBatch(b) == BatchAt(rkArticles, (b - 1) * BATCH_SIZE)

RunInterests == ParseDigestInterests(env.DIGEST_INTERESTS_JSON).value

\* The fetched items, scored, in feed order.
ScoredFeed == [i \in DOMAIN feedItems |-> ScoreFeedItem(feedItems[i], RunInterests)]

\* How often x occurs in s.
Occurrences(s, x) == Cardinality({i \in DOMAIN s : s[i] = x})

\* First position of x in s.
FirstPos(s, x) == CHOOSE i \in DOMAIN s : s[i] = x /\ \A j \in 1..(i - 1) : s[j] # x

StoredCanonicalUrls == {a.canonicalUrl : a \in storedAtStart}

\* The tiered articles that come from feed items.
FeedTiered ==
    {k \in DOMAIN tieredArticles :
        \A s \in DOMAIN savedArticles : savedArticles[s].id # tieredArticles[k].id}

\* C10: no feed item whose canonicalized link is the canonical URL of an article
\* stored at the start of the run reaches the diversity selection, the selection
\* or the assembled digest.
C10_StoredLinksNeverSelected ==
    /\ \A k \in DOMAIN newItems :
          CanonicalizeUrl(newItems[k].link) \notin StoredCanonicalUrls
    /\ \A k \in DOMAIN selectedFeedItems :
          CanonicalizeUrl(selectedFeedItems[k].link) \notin StoredCanonicalUrls
    /\ \A k \in FeedTiered :
          CanonicalizeUrl(tieredArticles[k].url) \notin StoredCanonicalUrls

\* C10 witness: an assembled digest with a feed article, in a run whose scored
\* items held one whose link only matches a stored article once canonicalized.
C10_Witness ==
    /\ pc = "assembled"
    /\ FeedTiered # {}
    /\ \E k \in DOMAIN scoredItems :
          /\ scoredItems[k].link \notin StoredCanonicalUrls
          /\ CanonicalizeUrl(scoredItems[k].link) \in StoredCanonicalUrls

\* C1: in a run that reaches assembly, the tiered articles are the articles for
\* ranking, one for one and in order, each with one of the three tiers and a
\* summary that is not empty.
C1_EveryArticleTieredAndSummarized ==
    pc = "assembled" =>
        /\ Len(tieredArticles) = Len(articlesForRanking)
        /\ \A k \in DOMAIN articlesForRanking :
              /\ tieredArticles[k].id = articlesForRanking[k].id
              /\ tieredArticles[k].tier \in Tiers
              /\ Truthy(tieredArticles[k].summary)

\* C1 witness: an assembled run with the LLM enabled in which the ranking left an
\* article out and the summarization left an article out.
C1_Witness ==
    /\ pc = "assembled"
    /\ env.llmEnabled
    /\ \E k \in DOMAIN articlesForRanking : articlesForRanking[k].id \notin DOMAIN rankings
    /\ \E k \in DOMAIN articlesForRanking : articlesForRanking[k].id \notin DOMAIN summaries
    /\ Len(articlesForRanking) >= 2

\* C2 as stated: no two entries of the list for ranking have the same id.
C2_IdsUnique ==
    \A k, l \in DOMAIN articlesForRanking :
        k # l => articlesForRanking[k].id # articlesForRanking[l].id

\* ------------------------------------------------------------------ applyFallbackRanking

\* Number of articles of fnArg that the returned map gives tier t.
FbCount(t) ==
    Cardinality({k \in DOMAIN fnArg : fnArg[k].id \in DOMAIN fnResult
                                       /\ fnResult[fnArg[k].id].tier = t})

\* Importance of a tier: smaller is more important.
TierRank(t) == CASE t = "critical" -> 0 [] t = "notable" -> 1 [] OTHER -> 2

\* C11: applyFallbackRanking gives every article of a list of n >= 1 articles a
\* tier, critical to min(n, max(1, floor(0.2 n))) of them, notable to
\* min(n - critical, max(2, floor(0.3 n))), related to the rest; one article is
\* critical, ten give 2, 3 and 5, and the empty list gives the empty map.
C11_FallbackTierCounts ==
    fnPc = "done" =>
        LET n == Len(fnArg)
            critical == Min(n, Max(1, (2 * n) \div 10))
            notable == Min(n - critical, Max(2, (3 * n) \div 10))
        IN  /\ DOMAIN fnResult = {fnArg[k].id : k \in DOMAIN fnArg}
            /\ \A id \in DOMAIN fnResult : fnResult[id].tier \in Tiers
            /\ n >= 1 => /\ FbCount("critical") = critical
                         /\ FbCount("notable") = notable
                         /\ FbCount("related") = n - critical - notable
            /\ n = 1 => fnResult[fnArg[1].id].tier = "critical"
            /\ n = 10 => /\ FbCount("critical") = 2
                         /\ FbCount("notable") = 3
                         /\ FbCount("related") = 5
            /\ n = 0 => fnResult = <<>>

\* C11 witness: ten articles ranked, with all three tiers given.
C11_Witness ==
    /\ fnPc = "done"
    /\ Len(fnArg) = 10
    /\ FbCount("critical") = 2 /\ FbCount("notable") = 3 /\ FbCount("related") = 5

LastWithId(k) ==
    CHOOSE l \in DOMAIN fnArg :
        /\ fnArg[l].article.id = fnArg[k].article.id
        /\ \A j \in DOMAIN fnArg : fnArg[j].article.id = fnArg[k].article.id => j <= l

\* C13: the summary generateFallbackSummaries produces for an article and a tier
\* is min(len(excerpt), 400) + 3 characters long for tier critical and
\* min(len(excerpt), 150) + 3 otherwise, so at most 404 and 154, and its oneLiner
\* is the article's title for every tier. (The map keeps, for an id, what was
\* produced for the last entry with that id.)
C13_FallbackSummaryLengths ==
    fnPc = "done" =>
        \A k \in DOMAIN fnArg :
            LET input == fnArg[LastWithId(k)]
                produced == fnResult[fnArg[k].article.id]
            IN  /\ produced.summary.len =
                      IF input.tier = "critical" THEN Min(input.article.excerpt, 400) + 3
                      ELSE Min(input.article.excerpt, 150) + 3
                /\ produced.summary.len <= (IF input.tier = "critical" THEN 404 ELSE 154)
                /\ produced.oneLiner = input.article.title

\* C13 witness: a critical article with a 500-character excerpt gets 403
\* characters and a notable one with the same excerpt 153.
C13_Witness ==
    /\ fnPc = "done"
    /\ \E k, l \in DOMAIN fnArg :
          /\ fnArg[k].article.id # fnArg[l].article.id
          /\ fnArg[k].tier = "critical" /\ fnArg[k].article.excerpt >= 500
          /\ fnResult[fnArg[k].article.id].summary.len = 403
          /\ fnArg[l].tier = "notable" /\ fnArg[l].article.excerpt >= 500
          /\ fnResult[fnArg[l].article.id].summary.len = 153

\* ------------------------------------------------------------------ the end of a run

\* The run created its record and found nothing to process.
NothingToProcess ==
    /\ digestRun # 0
    /\ pc # "fetch"
    /\ Len(savedArticles) = 0
    /\ Len(selectedFeedItems) = 0

\* The delivery calls made by the current run.
RunDeliveries == {i \in DOMAIN deliveries : deliveries[i].run = digestRun}

\* C14: a run with no saved article and no selected feed item ends as a clean
\* early exit: its record is a SUCCESS with no included article, no feed item and
\* the error 'No articles available', no EPUB is generated, no delivery call made.
C14_CleanEarlyExit ==
    NothingToProcess =>
        /\ pc \in {"selected", "exit0"}
        /\ epubs = <<>>
        /\ RunDeliveries = {}
        /\ thrown = ""
        /\ pc = "exit0" =>
              dbRuns[digestRun] =
                 [status |-> "SUCCESS", finished |-> TRUE, includedArticleIds |-> <<>>,
                  feedItemsIncluded |-> <<>>, error |-> "No articles available"]

\* C14 witness: an early exit of a run whose feeds had items, none selected.
C14_Witness ==
    /\ NothingToProcess
    /\ pc = "exit0"
    /\ Len(feedItems) > 0

\* The run has assembled its tiered articles.
Assembled ==
    \/ pc \in {"assembled", "epubs", "sent"}
    \/ pc \in {"exit0", "exit1"} /\ digestRun # 0 /\ ~NothingToProcess

\* Every selected feed item was extracted.
AllExtracted ==
    /\ Len(extractOk) = Len(selectedFeedItems)
    /\ \A k \in DOMAIN extractOk : extractOk[k]

\* C15: in a tiered run on the fallback strategies in which every extraction
\* succeeds there are as many tiered articles as saved articles and selected feed
\* items together; the run makes at most one delivery call, with two attachments,
\* and exactly one when it completes; with one saved article and three selected
\* feed items there are four tiered articles and the saved one is critical.
C15_FallbackRunEndToEnd ==
    (Assembled /\ ~env.llmEnabled /\ AllExtracted) =>
        /\ Len(tieredArticles) = Len(savedArticles) + Len(selectedFeedItems)
        /\ Cardinality(RunDeliveries) <= 1
        /\ \A i \in RunDeliveries : deliveries[i].attachments = 2
        /\ pc = "exit0" => Cardinality(RunDeliveries) = 1
        /\ (Len(savedArticles) = 1 /\ Len(selectedFeedItems) = 3) =>
              /\ Len(tieredArticles) = 4
              /\ \A k \in DOMAIN tieredArticles :
                    tieredArticles[k].id = savedArticles[1].id
                       => tieredArticles[k].tier = "critical"
              /\ \E k \in DOMAIN tieredArticles : tieredArticles[k].id = savedArticles[1].id

\* C15 witness: a completed fallback run with one saved article, three selected
\* feed items of two topics, all extracted, and one delivery of two attachments.
C15_Witness ==
    /\ pc = "exit0"
    /\ ~env.llmEnabled
    /\ AllExtracted
    /\ Len(savedArticles) = 1
    /\ Len(selectedFeedItems) = 3
    /\ \E k \in DOMAIN selectedFeedItems : Len(selectedFeedItems[k].matchedTopics) = 2
    /\ Len(tieredArticles) = 4
    /\ \E i \in RunDeliveries : deliveries[i].attachments = 2 /\ deliveries[i].ok

\* The selected feed items whose extraction returned, in order.
ExtractedItems ==
    FilterIdx(selectedFeedItems, {k \in DOMAIN extractOk : extractOk[k]}, 1)

\* C16 as stated: a selected feed item whose extraction failed gets no entry in
\* the list for ranking, every other selected item has its entry, and the run goes
\* on: after the saved articles the list holds exactly the extracted items.
C16_FailedItemsExcluded ==
    pc = "ranked" =>
        SubSeq(articlesForRanking, Len(savedArticles) + 1, Len(articlesForRanking))
            = [k \in DOMAIN ExtractedItems |-> FeedForRanking(ExtractedItems[k])]

\* C17: when a stage throws after the run record was created, the record gets
\* status FAILED, the error message and a finish time, the error leaves main and
\* the process exits with a code that is not 0; it exits with 0 only when nothing
\* was thrown.
C17_FatalFailureRecorded ==
    /\ thrown # "" => pc = "exit1"
    /\ pc = "exit1" => thrown # ""
    /\ pc = "exit0" => thrown = ""
    /\ (thrown # "" /\ digestRun # 0) =>
          /\ dbRuns[digestRun].status = "FAILED"
          /\ dbRuns[digestRun].error = thrown
          /\ dbRuns[digestRun].finished

\* C17 witness: a run whose delivery call failed, and its record is FAILED.
C17_Witness ==
    /\ pc = "exit1"
    /\ digestRun # 0
    /\ RunDeliveries # {}
    /\ dbRuns[digestRun].status = "FAILED"
    /\ dbRuns[digestRun].error = "Failed to send email"

C20_MaxArticlesRespected ==
    \A i \in DOMAIN deliveries :
        deliveries[i].articles <= env.limits.DIGEST_MAX_ARTICLES

\* The runs that completed a delivery and were recorded as finished SUCCESS.
DeliveredRuns ==
    {r \in DOMAIN dbRuns :
        /\ dbRuns[r].status = "SUCCESS"
        /\ dbRuns[r].finished
        /\ \E i \in DOMAIN deliveries : deliveries[i].run = r /\ deliveries[i].ok}

\* C19 as stated: the run records prevent duplicate sends: once a run of the
\* period delivered a digest and is recorded as SUCCESS, no later invocation of
\* the period makes a delivery call.
C19_NoDeliveryAfterSuccess ==
    \A i \in DOMAIN deliveries :
        \A r \in DeliveredRuns : deliveries[i].run <= r

\* The summary document and the full-article document of the run, once generated.
SummaryDoc == epubs[1]
FullDoc == epubs[2]

\* C21: in a tiered run the critical, notable and related lists partition the
\* tiered articles (every record is in exactly one list, as often as it is in
\* tieredArticles, and the three reported counts add up to the total); every
\* article of the full-article document is critical; the reported full-article
\* count is the size of that document and at most the critical count.
C21_TierListsPartition ==
    /\ Len(epubs) = 2 =>
          /\ \A k \in DOMAIN tieredArticles :
                LET t == tieredArticles[k]
                IN  /\ Occurrences(SummaryDoc.criticalArticles, t)
                         = (IF t.tier = "critical" THEN Occurrences(tieredArticles, t) ELSE 0)
                    /\ Occurrences(SummaryDoc.notableArticles, t)
                         = (IF t.tier = "notable" THEN Occurrences(tieredArticles, t) ELSE 0)
                    /\ Occurrences(SummaryDoc.relatedArticles, t)
                         = (IF t.tier = "related" THEN Occurrences(tieredArticles, t) ELSE 0)
          /\ Len(SummaryDoc.criticalArticles) + Len(SummaryDoc.notableArticles)
                + Len(SummaryDoc.relatedArticles) = Len(tieredArticles)
          /\ \A k \in DOMAIN FullDoc.articles : FullDoc.articles[k].tier = "critical"
          /\ Len(FullDoc.articles) <= Len(SummaryDoc.criticalArticles)
    /\ \A i \in RunDeliveries :
          /\ deliveries[i].stats.critical = Len(SummaryDoc.criticalArticles)
          /\ deliveries[i].stats.notable = Len(SummaryDoc.notableArticles)
          /\ deliveries[i].stats.related = Len(SummaryDoc.relatedArticles)
          /\ deliveries[i].stats.critical + deliveries[i].stats.notable
                + deliveries[i].stats.related = Len(tieredArticles)
          /\ deliveries[i].stats.fullArticles = Len(FullDoc.articles)
          /\ deliveries[i].stats.fullArticles <= deliveries[i].stats.critical

\* C21 witness: a delivered digest with articles of all three tiers, whose
\* full-article document is not empty and has fewer articles than the critical list.
C21_Witness ==
    /\ pc = "sent"
    /\ \E i \in RunDeliveries :
          /\ deliveries[i].stats.critical >= 2
          /\ deliveries[i].stats.notable >= 1
          /\ deliveries[i].stats.related >= 1
          /\ deliveries[i].stats.fullArticles >= 1
          /\ deliveries[i].stats.fullArticles < deliveries[i].stats.critical

\* ------------------------------------------------------------------ summaries in flight

\* The calls whose completion request is in flight.
InFlight == {k \in DOMAIN smPromises : smPromises[k] = "pending"}

\* The calls whose promise is fulfilled.
Fulfilled == {k \in DOMAIN smPromises : smPromises[k] = "fulfilled"}

\* The last fulfilled call for the article id of call k.
LastFulfilled(k) ==
    CHOOSE j \in Fulfilled :
        /\ smArticles[j].article.id = smArticles[k].article.id
        /\ \A x \in Fulfilled :
              smArticles[x].article.id = smArticles[k].article.id => x <= j

\* C22: in generateSummariesBatch at most 5 requests are in flight at any moment;
\* the inputs are taken in consecutive groups of at most 5; a group is started
\* only when every request of the groups before it has settled; the function
\* returns only when every request has settled, and the map then has an entry
\* under the article id of every fulfilled request and under no other key (one
\* entry per fulfilled request when the ids are distinct).
C22_AtMostFiveInFlight ==
    /\ Cardinality(InFlight) <= 5
    /\ InFlight \subseteq (smI + 1)..(smI + 5)
    /\ \A k \in DOMAIN smPromises :
          /\ k <= smI => smPromises[k] \in {"fulfilled", "rejected"}
          /\ k > smI + 5 => smPromises[k] = "none"
          /\ (smPc = "loop" /\ k > smI) => smPromises[k] = "none"
    /\ smPc = "returned" =>
          /\ \A k \in DOMAIN smPromises : smPromises[k] \in {"fulfilled", "rejected"}
          /\ DOMAIN smResults = {smArticles[k].article.id : k \in Fulfilled}
          /\ smResults = GenerateSummariesBatch(smArticles, smOutcomes)
          /\ \A k \in Fulfilled :
                smResults[smArticles[k].article.id] =
                    GenerateSummary(smArticles[LastFulfilled(k)].article,
                                    smArticles[LastFulfilled(k)].tier,
                                    smOutcomes[LastFulfilled(k)])
          /\ (\A a, b \in DOMAIN smArticles :
                 a # b => smArticles[a].article.id # smArticles[b].article.id)
                => Cardinality(DOMAIN smResults) = Cardinality(Fulfilled)

\* C22 witness: the function returned for more than 5 articles with distinct ids,
\* a rejected call in each group, and an entry for each of the other calls.
C22_Witness ==
    /\ smPc = "returned"
    /\ Len(smArticles) = 7
    /\ smArticles[7].article.id = 7
    /\ smPromises[2] = "rejected"
    /\ smPromises[6] = "rejected"
    /\ Cardinality(DOMAIN smResults) = 5

\* ------------------------------------------------------------------ single-article send

\* The reply is an error reply that carries the message.
CarriesMessage(response, message) ==
    IF snRoute = "api"
    THEN response.status = 500 /\ response.body.message = message
    ELSE /\ response.status = 302
         /\ response.location[Len(response.location)] = message
         /\ response.location[2] = "Failed to send to Kindle: "

\* C23: in the single-article send routes, when EPUB generation or the delivery
\* fails the caller gets an error reply that carries the error message and the
\* article's sentToKindleAt stays as it was; sentToKindleAt is written only after
\* the send call of the request returned successfully.
C23_SendFailureSurfaced ==
    /\ snThrown # "" =>
          /\ snPc = "responded"
          /\ CarriesMessage(snResponse, snThrown)
          /\ snSentAt = snArticle.sentToKindleAt
    /\ (snArticle # <<>> /\ snSentAt # snArticle.sentToKindleAt) =>
          /\ Len(snCalls) = 1
          /\ snCalls[1].ok
          /\ snSentAt = snNow
          /\ snPc = "responded"
    /\ snArticle = <<>> => snSentAt = 0 /\ snCalls = <<>>

\* C23 witness: the send call of the UI route failed for an article that was sent
\* before; the redirect carries the message and the old timestamp is kept.
C23_Witness ==
    /\ snPc = "responded"
    /\ snRoute = "ui"
    /\ snThrown = "Failed to send email: rejected"
    /\ Len(snCalls) = 1
    /\ snArticle # <<>>
    /\ snArticle.sentToKindleAt = 1
    /\ snSentAt = 1

\* ------------------------------------------------------------------ canonical URLs

\* C24 as stated: canonicalizeUrl is idempotent: canonicalizing its result for a
\* valid URL gives that result again, also for a host with repeated leading
\* "www." labels and a path that ends in several slashes.
C24_CanonicalizeIdempotent ==
    (fnPc = "done" /\ fnArg.valid) => CanonicalizeUrl(fnResult) = fnResult

\* ------------------------------------------------------------------ interests configuration

\* The JSON value is a record whose values are objects with an array of strings
\* `keywords` and, if present, an array of strings `feeds`.
MatchesInterestSchema(v) ==
    /\ v.type = "object"
    /\ \A k \in DOMAIN v.entries :
          /\ v.entries[k].value.type = "object"
          /\ v.entries[k].value.keywords.type = "strings"
          /\ v.entries[k].value.feeds.type \in {"missing", "strings"}

\* The variable is unset, is no JSON text, or its JSON does not match the schema.
NoUsableInterests ==
    \/ env.DIGEST_INTERESTS_JSON.kind \in {"undefined", "empty", "notJson"}
    \/ /\ env.DIGEST_INTERESTS_JSON.kind = "json"
       /\ ~MatchesInterestSchema(env.DIGEST_INTERESTS_JSON.value)

\* C25: parseDigestInterests never throws; for an undefined value, a text that is
\* no JSON and JSON that does not match the schema it returns the empty map, and
\* the run goes on as a run without interests: it fetches the feeds of RSS_FEEDS
\* only, no feed item is relevant or selected, and no error of the configuration
\* ends the run.
C25_MalformedInterestsNotFatal ==
    /\ ~ParseDigestInterests(env.DIGEST_INTERESTS_JSON).threw
    /\ NoUsableInterests =>
          /\ ParseDigestInterests(env.DIGEST_INTERESTS_JSON).value = <<>>
          /\ thrown # "parseDigestInterests threw"
          /\ (digestRun # 0 /\ pc # "fetch") =>
                /\ \A k \in DOMAIN feedItems : Includes(env.RSS_FEEDS, feedItems[k].feedUrl)
                /\ scoredItems = <<>>
                /\ selectedFeedItems = <<>>
    /\ ~NoUsableInterests =>
          ParseDigestInterests(env.DIGEST_INTERESTS_JSON).value = InterestsValue

\* C25 witness: a run whose interests JSON does not match the schema fetched feed
\* items, delivered its saved articles and completed.
C25_Witness ==
    /\ pc = "exit0"
    /\ env.DIGEST_INTERESTS_JSON.kind = "json"
    /\ NoUsableInterests
    /\ Len(feedItems) > 0
    /\ Len(savedArticles) > 0
    /\ \E i \in RunDeliveries : deliveries[i].ok

\* ------------------------------------------------------------------ keyword occurrences

\* The positions of str where the pattern stands between word boundaries, letter
\* case aside.
AnchoredAt(pattern, str) ==
    {q \in 1..(Len(str) + 1) : RegexMatchAt(pattern, str, q)}

\* Number of occurrences of the pattern in str, counted from the left without
\* overlap: an anchored position counts unless an occurrence counted before
\* covers it.
OccurrenceCount(pattern, str) ==
    Cardinality(CHOOSE M \in SUBSET AnchoredAt(pattern, str) :
                    \A q \in AnchoredAt(pattern, str) :
                        q \in M <=> ~\E r \in M : r < q /\ q < r + Len(pattern))

\* C26 as stated: scoreKeyword returns min(10, 2 * k), k being the number of
\* word-boundary-anchored, case-insensitive occurrences of the keyword in the
\* text: 0 without a whole-word occurrence, 2 for one, never more than 10.
C26_Original ==
    fnPc = "done" =>
        fnResult = Min(10, 2 * OccurrenceCount(fnArg.keyword, fnArg.text))

\* C26 amended: scoreKeyword returns min(10, 2 * k), k being the number of
\* occurrences, counted from the left without overlap, of the normalized keyword
\* between word boundaries of the normalized text (both in lower case, every
\* character other than a-z, 0-9, white space and '-' replaced by a blank): 0
\* without such an occurrence, 2 for one, never more than 10.
C26_ScoreOfNormalizedOccurrences ==
    fnPc = "done" =>
        LET k == OccurrenceCount(NormalizeChars(fnArg.keyword), NormalizeChars(fnArg.text))
        IN  /\ fnResult = Min(10, 2 * k)
            /\ fnResult <= 10
            /\ k = 0 => fnResult = 0
            /\ k = 1 => fnResult = 2

\* C26 witness: six occurrences of a keyword written in another letter case give
\* the capped score 10.
C26_Witness ==
    /\ fnPc = "done"
    /\ fnArg.keyword = <<"A">>
    /\ Len(fnArg.text) = 11
    /\ OccurrenceCount(NormalizeChars(fnArg.keyword), NormalizeChars(fnArg.text)) = 6
    /\ fnResult = 10

\* ------------------------------------------------------------------ status of a run in progress

\* C27: at every moment, a DigestRun record whose status is SUCCESS belongs to a
\* run that has completed (its finish timestamp is set): a run in progress is
\* never visible with status SUCCESS.
C27_SuccessOnlyWhenFinished ==
    \A r \in DOMAIN dbRuns : dbRuns[r].status = "SUCCESS" => dbRuns[r].finished

\* ------------------------------------------------------------------ delivery of an empty digest

\* C28: a delivery call is made only for a digest of at least one article: with
\* no saved article and every extraction failed, no email is sent.
C28_NoDeliveryOfEmptyDigest ==
    \A d \in DOMAIN deliveries : deliveries[d].articles >= 1

\* ------------------------------------------------------------------ sent timestamps

\* The saved articles whose sent timestamp is written by the step.
NewlySent == {a \in dbArticles' : a.sent /\ [a EXCEPT !.sent = FALSE] \in dbArticles}

\* The ids of the articles of the delivered summary document.
DigestIds ==
    {SummaryDoc.criticalArticles[k].id : k \in DOMAIN SummaryDoc.criticalArticles}
      \cup {SummaryDoc.notableArticles[k].id : k \in DOMAIN SummaryDoc.notableArticles}
      \cup {SummaryDoc.relatedArticles[k].id : k \in DOMAIN SummaryDoc.relatedArticles}

\* C29: in a digest run the sent timestamp of a saved article is written only
\* after the delivery call of that run has returned successfully, and only for
\* saved articles of the delivered digest; no article appears as sent otherwise,
\* so a run whose delivery call throws changes no sent timestamp.
C29_SentOnlyAfterDelivery ==
    [][/\ \A a \in dbArticles' : a.sent => (a \in dbArticles \/ a \in NewlySent)
       /\ NewlySent # {} =>
            /\ RunDeliveries # {}
            /\ \A d \in RunDeliveries : deliveries[d].ok
            /\ thrown = ""
            /\ \A a \in NewlySent :
                  /\ a.id \in DigestIds
                  /\ \E k \in DOMAIN savedArticles : savedArticles[k].id = a.id]_vars

\* C29 witness: a run has delivered and has marked a saved article as sent, while
\* another unsent article of the database was not in the digest and stays unsent.
C29_Witness ==
    /\ pc = "exit0"
    /\ \E d \in RunDeliveries : deliveries[d].ok
    /\ \E a \in dbArticles : a.sent /\ [a EXCEPT !.sent = FALSE] \in storedAtStart
    /\ \E b \in dbArticles : ~b.sent /\ b \in storedAtStart

\* ------------------------------------------------------------------ feed items of the run record

\* The selected feed items that are in the delivered digest.
DeliveredFeedItems ==
    FilterIdx(selectedFeedItems,
              {k \in DOMAIN selectedFeedItems : selectedFeedItems[k].link \in DigestIds}, 1)

\* C30: in every successful run the feed items recorded on the DigestRun are
\* exactly the selected feed items of the delivered digest: a selected item whose
\* extraction failed is not recorded as included.
C30_RecordedItemsWereDelivered ==
    (pc = "exit0" /\ \E d \in RunDeliveries : deliveries[d].ok) =>
        [k \in DOMAIN dbRuns[digestRun].feedItemsIncluded |->
            dbRuns[digestRun].feedItemsIncluded[k].link]
          = [k \in DOMAIN DeliveredFeedItems |-> DeliveredFeedItems[k].link]

====
